---- MODULE Spec2Model ----
(***************************************************************************)
(* Retry-herd prevention: the throttled send pipeline of simulate.js (and  *)
(* its demo variant simulate-demo.js) and the library classes TokenBucket  *)
(* and AIMDController.                                                     *)
(*                                                                         *)
(* Units.  Times are integer milliseconds (Date.now()).  The bucket's      *)
(* token count is kept in thousandths of a token, so that the refill       *)
(*   tokens + ((now - last) / 1000) * rate                                 *)
(* is the exact integer  tokens + (now - last) * rate  and the test        *)
(* tokens >= 1 reads tokens >= 1000.  Ratios (error rate, multiplicative   *)
(* factor) are records [num, den].  An option that is absent and an option *)
(* that is 0 are both written 0: the constructors read them with `||`.     *)
(*                                                                         *)
(* Scheduling.  JavaScript runs one callback at a time, so an action is    *)
(* what a task does between two timer waits; an await of a promise that is *)
(* already settled does not let the clock advance and is folded into the   *)
(* action.  The clock advances only when no task is ready, to the next     *)
(* timer (timers fire at their due time).  Tasks that are ready at the     *)
(* same instant run in any order.                                          *)
(*                                                                         *)
(* Randomness.  The draws of Math.random (latency, outcome, jitter) are    *)
(* inputs fixed when a run starts: env.plan gives each item its latency    *)
(* and how many of its first transport calls fail and how, env.jitter the  *)
(* jitter of every backoff.                                                *)
(***************************************************************************)
EXTENDS Integers, Sequences, FiniteSets, TLC

VARIABLES sys, now,
          bucket, tbCall,
          DB, win, sentCount, CB, MAX_RPS, task, mainPc, ctl, shuttingDown,
          env, calls, h,
          aimd, aimdCall,
          breaker, breakerCall,
          obj, objCall, inflight

tbVars   == <<bucket, tbCall>>
pipeVars == <<DB, win, sentCount, CB, MAX_RPS, task, mainPc, ctl, shuttingDown, env, calls, h>>
aimdVars == <<aimd, aimdCall>>
cbVars   == <<breaker, breakerCall>>
objVars  == <<obj, objCall, inflight>>
vars     == <<sys, now, tbVars, pipeVars, aimdVars, cbVars, objVars>>

\* ---------------------------------------------------------------- bounds
NItems      == 3          \* work items seeded in the store
LogKeep     == 3          \* transport invocations remembered in h.sendLog
MaxTime     == 8000000    \* the pipeline's clock stops here (ms)
TBMaxTime   == 1200       \* the TokenBucket clock stays within 0..TBMaxTime
TBMaxOps    == 4          \* calls made on the TokenBucket
AIMDMaxTime == 90000      \* the AIMDController clock stops here (ms)

\* ------------------------------------------------------ program constants
BATCH_SIZE      == 200
CONCURRENCY     == 6
INITIAL_MAX_RPS == 5
WARMUP_RPS      == 1
WARMUP_MS       == 60000
RAMP_STEP       == 1
RAMP_EVERY      == 30000
RETRY_MAX       == 8
BACKOFF_CAP_S   == 300
WINDOW_MS       == 30000
OPEN_MS         == 30000
HALF_OPEN_MS    == 10000
HALF_OPEN_PROBE_RPS == 3
CB_FAILURES     == 10
TAKE_SLEEP_MS   == 10
BLOCK_SLEEP_MS  == 50
IDLE_SLEEP_MS   == 300
DEMO_WARMUP_MS  == 15000
DEMO_RAMP_EVERY == 10000

\* ---------------------------------------------------------------- helpers
Min(a, b) == IF a <= b THEN a ELSE b
Max(a, b) == IF a >= b THEN a ELSE b

\* Number.prototype `**` for the base 2: 2 ** n
RECURSIVE Pow2(_)
Pow2(n) == IF n <= 0 THEN 1 ELSE 2 * Pow2(n - 1)

\* a || d : the default d replaces a falsy (absent or 0) option
OrDefault(a, d) == IF a = 0 THEN d ELSE a

\* a ratio num/den compared with a threshold ratio: e > thr
RatioGT(e, thr) == e.num * thr.den > thr.num * e.den

\* the least integer >= a / b, for b > 0
CeilDiv(a, b) == IF a <= 0 THEN 0 ELSE (a + b - 1) \div b

Items == 1..NItems

\* =========================================================================
\* TokenBucket                                (src/unnamed/part_002, the
\* class of simulate.js and simulate-demo.js has the same body)
\* =========================================================================

\* tokens is a double in the code.  The model counts it in thousandths of a
\* token, which is exact for whole milliseconds and whole rates, and keeps in
\* err how the double stands to that count:
\*   "exact"   the double is tokens / 1000
\*   "rounded" it may differ from tokens / 1000 by rounding errors, and when
\*             tokens / 1000 is a whole number it is not below it
\*   "short"   tokens / 1000 is a whole number n and the double is just below
\*             it: 0.1 added ten times is 0.9999999999999999

\* constructor(ratePerSec) at time t
TokenBucket(ratePerSec, t) ==
    [capacity |-> ratePerSec, tokens |-> ratePerSec * 1000,
     rate |-> ratePerSec, last |-> t, err |-> "exact"]

\* setRate(ratePerSec): Math.min(tokens, capacity) is capacity itself when it
\* cuts tokens down
setRate(b, ratePerSec) ==
    [b EXCEPT !.capacity = ratePerSec,
              !.rate     = ratePerSec,
              !.tokens   = Min(b.tokens, ratePerSec * 1000),
              !.err      = IF b.tokens > ratePerSec * 1000 THEN "exact" ELSE @]

\* What the sum of refill() at time t can come to in doubles.  A sum beyond
\* capacity is cut to capacity; adding 0 changes nothing; (now - last) / 1000
\* is a binary fraction when now - last is a multiple of 125 ms, and the sum
\* is then as exact as tokens was; any other sum is rounded, and one that
\* comes to a whole number of tokens may fall just short of it.
Roundings(b, t) ==
    LET sum == b.tokens + (t - b.last) * b.rate
    IN  IF sum > b.capacity * 1000 THEN {"exact"}
        ELSE IF (t - b.last) * b.rate = 0 THEN {b.err}
        ELSE IF b.err = "exact" /\ b.tokens % 125 = 0 /\ (t - b.last) % 125 = 0
             THEN {"exact"}
        ELSE IF sum % 1000 = 0 THEN {"short", "rounded"}
        ELSE {"rounded"}

\* refill() at time t, its sum rounded as e \in Roundings(b, t) says
refill(b, t, e) ==
    [b EXCEPT !.tokens = Min(b.capacity * 1000, b.tokens + (t - b.last) * b.rate),
              !.last   = t,
              !.err    = e]

\* this.tokens >= 1
hasToken(b) == b.tokens >= 1000 /\ ~(b.tokens = 1000 /\ b.err = "short")

\* tryTake that answers yes without consuming the token
tryTake_NoDecrement(b, t, e) ==
    LET r == refill(b, t, e)
    IN  IF hasToken(r)
        THEN [ok |-> TRUE,  b |-> r]
        ELSE [ok |-> FALSE, b |-> r]

\* tryTake that hands out a token as soon as any fraction of one is there
tryTake_AnyFraction(b, t, e) ==
    LET r == refill(b, t, e)
    IN  IF r.tokens > 0
        THEN [ok |-> TRUE,  b |-> [r EXCEPT !.tokens = r.tokens - 1000]]
        ELSE [ok |-> FALSE, b |-> r]

\* tryTake() at time t: the result and the bucket afterwards.  It is also one
\* turn of the loop of take(), which sleeps and tries again on FALSE.
tryTake(b, t, e) ==
    LET r == refill(b, t, e)
    IN  IF hasToken(r)
        THEN [ok |-> TRUE,  b |-> [r EXCEPT !.tokens = r.tokens - 1000]]
        ELSE [ok |-> FALSE, b |-> r]

\* getAvailableTokens() at time t: Math.floor(tokens) after the refill
getAvailableTokens(b, t, e) ==
    LET r == refill(b, t, e)
    IN  [n |-> (r.tokens \div 1000) - (IF r.err = "short" THEN 1 ELSE 0), b |-> r]

\* The sleeps of take().  A turn of its loop that finds no token changes
\* nothing but the refill point, and the sums of the turns come in thousandths
\* to the sum of one refill, so the model passes over the turns that are bound
\* to find no token; the double has been through their roundings.
polled(b) == [b EXCEPT !.err = IF @ = "exact" THEN "rounded" ELSE @]

\* =========================================================================
\* A TokenBucket used directly by a caller (sys = "bucket"): any operation,
\* any rate, at any reading of Date.now(), which is the wall clock and may
\* step back.
\* =========================================================================
TBInitRates == {1, 2, 3}
TBSetRates  == {0, 1, 2, 5}
TBClockSteps == {-400, 200, 1000}

NoCall == [n |-> 0, op |-> "none", arg |-> 0, ret |-> 0, pre |-> 0]

PipeIdle ==
    /\ DB = <<>> /\ win = <<>> /\ sentCount = 0 /\ CB = 0 /\ MAX_RPS = 0
    /\ task = <<>> /\ mainPc = 0 /\ ctl = 0 /\ shuttingDown = FALSE
    /\ env = 0 /\ calls = <<>> /\ h = 0

AIMDIdle == aimd = 0 /\ aimdCall = 0

CBIdle == breaker = 0 /\ breakerCall = 0

ObjIdle == obj = 0 /\ objCall = 0 /\ inflight = <<>>

InitTB ==
    /\ sys = "bucket"
    /\ now = 0
    /\ \E r \in TBInitRates :
          /\ bucket = TokenBucket(r, 0)
          /\ tbCall = [n |-> 0, op |-> "new", arg |-> r, ret |-> 0, pre |-> 0]
    /\ PipeIdle /\ AIMDIdle /\ CBIdle /\ ObjIdle

\* Date.now() moves between two calls
TB_Clock ==
    /\ sys = "bucket"
    /\ \E d \in TBClockSteps :
          /\ now + d >= 0 /\ now + d <= TBMaxTime
          /\ now' = now + d
    /\ UNCHANGED <<sys, objVars, tbVars, pipeVars, aimdVars, cbVars>>

TB_SetRate ==
    /\ sys = "bucket"
    /\ tbCall.n < TBMaxOps
    /\ \E r \in TBSetRates :
          /\ bucket' = setRate(bucket, r)
          /\ tbCall' = [n |-> tbCall.n + 1, op |-> "setRate", arg |-> r, ret |-> 0, pre |-> bucket]
    /\ UNCHANGED <<sys, objVars, now, pipeVars, aimdVars, cbVars>>

TB_Refill ==
    /\ sys = "bucket"
    /\ tbCall.n < TBMaxOps
    /\ \E e \in Roundings(bucket, now) :
          /\ bucket' = refill(bucket, now, e)
          /\ tbCall' = [n |-> tbCall.n + 1, op |-> "refill", arg |-> 0, ret |-> 0,
                        pre |-> bucket]
    /\ UNCHANGED <<sys, objVars, now, pipeVars, aimdVars, cbVars>>

TB_TryTake ==
    /\ sys = "bucket"
    /\ tbCall.n < TBMaxOps
    /\ \E e \in Roundings(bucket, now) :
          LET r == tryTake(bucket, now, e)
          IN  /\ bucket' = r.b
              /\ tbCall' = [n |-> tbCall.n + 1, op |-> "tryTake", arg |-> 0,
                            ret |-> IF r.ok THEN 1 ELSE 0, pre |-> bucket]
    /\ UNCHANGED <<sys, objVars, now, pipeVars, aimdVars, cbVars>>

\* take(): one turn of its loop; it returns when the turn finds a token
\* (ret = 1) and otherwise sleeps TAKE_SLEEP_MS and takes another turn.
TB_Take ==
    /\ sys = "bucket"
    /\ tbCall.n < TBMaxOps
    /\ \E e \in Roundings(bucket, now) :
          LET r == tryTake(bucket, now, e)
          IN  /\ bucket' = r.b
              /\ tbCall' = [n |-> tbCall.n + 1, op |-> "take", arg |-> 0,
                            ret |-> IF r.ok THEN 1 ELSE 0, pre |-> bucket]
    /\ UNCHANGED <<sys, objVars, now, pipeVars, aimdVars, cbVars>>

TB_GetAvailableTokens ==
    /\ sys = "bucket"
    /\ tbCall.n < TBMaxOps
    /\ \E e \in Roundings(bucket, now) :
          LET r == getAvailableTokens(bucket, now, e)
          IN  /\ bucket' = r.b
              /\ tbCall' = [n |-> tbCall.n + 1, op |-> "getAvailableTokens", arg |-> 0,
                            ret |-> r.n, pre |-> bucket]
    /\ UNCHANGED <<sys, objVars, now, pipeVars, aimdVars, cbVars>>

NextTB ==
    \/ TB_Clock
    \/ TB_SetRate
    \/ TB_Refill
    \/ TB_TryTake
    \/ TB_Take
    \/ TB_GetAvailableTokens

SpecTB == InitTB /\ [][NextTB]_vars

\* =========================================================================
\* The pipeline of simulate.js (sys = "simulate") and of simulate-demo.js
\* (sys = "demo"): store, window, breaker, transport, workers, controller.
\* =========================================================================
IsPipe == sys \in {"simulate", "demo"}

WarmupMs(v)  == IF v = "demo" THEN DEMO_WARMUP_MS  ELSE WARMUP_MS
RampEvery(v) == IF v = "demo" THEN DEMO_RAMP_EVERY ELSE RAMP_EVERY

\* ------------------------------------------------------------ the window
RECURSIVE Evict(_, _)
Evict(w, t) ==
    IF Len(w) > 0 /\ t - w[1].t > WINDOW_MS THEN Evict(Tail(w), t) ELSE w

\* record(ms, ok) at time t: push, then shift expired points off the front
record(w, t, ms, ok) == Evict(Append(w, [t |-> t, ms |-> ms, ok |-> ok]), t)

RECURSIVE CountBad(_)
CountBad(w) ==
    IF Len(w) = 0 THEN 0
    ELSE (IF w[1].ok THEN 0 ELSE 1) + CountBad(Tail(w))

\* errorRate(): bad / win.length, 0 when the window is empty
errorRate(w) ==
    IF Len(w) = 0 THEN [num |-> 0, den |-> 1]
    ELSE [num |-> CountBad(w), den |-> Len(w)]

RECURSIVE Insert(_, _)
Insert(x, sorted) ==
    IF Len(sorted) = 0 THEN <<x>>
    ELSE IF x <= sorted[1] THEN <<x>> \o sorted
    ELSE <<sorted[1]>> \o Insert(x, Tail(sorted))

RECURSIVE SortAsc(_)
SortAsc(q) == IF Len(q) = 0 THEN <<>> ELSE Insert(q[1], SortAsc(Tail(q)))

\* p95Latency(): arr[Math.floor(arr.length * 0.95)] of the sorted latencies
p95Latency(w) ==
    LET arr == SortAsc([k \in 1..Len(w) |-> w[k].ms])
    IN  IF Len(arr) = 0 THEN 0 ELSE arr[((Len(arr) * 95) \div 100) + 1]

\* ----------------------------------------------------------- the breaker
CBInit == [state |-> "Closed", openedAt |-> 0, halfOpenUntil |-> 0,
           consecutiveFailures |-> 0]

\* CB.shouldBlock() at time t: the answer and the breaker afterwards
CB_shouldBlock(cb, t) ==
    IF cb.state = "Open"
    THEN IF t - cb.openedAt >= OPEN_MS
         THEN [block |-> FALSE,
               cb |-> [cb EXCEPT !.state = "HalfOpen",
                                 !.halfOpenUntil = t + HALF_OPEN_MS,
                                 !.consecutiveFailures = 0]]
         ELSE [block |-> TRUE, cb |-> cb]
    ELSE [block |-> FALSE, cb |-> cb]

\* CB.onSuccess() at time t
CB_onSuccess(cb, t) ==
    LET c == [cb EXCEPT !.consecutiveFailures = 0]
    IN  IF c.state = "HalfOpen" /\ t > c.halfOpenUntil
        THEN [c EXCEPT !.state = "Closed"]
        ELSE c

\* CB.onFailure() at time t
CB_onFailure(cb, t) ==
    LET c == [cb EXCEPT !.consecutiveFailures = @ + 1]
    IN  IF c.state = "Closed" /\ c.consecutiveFailures >= CB_FAILURES
        THEN [c EXCEPT !.state = "Open", !.openedAt = t]
        ELSE IF c.state = "HalfOpen"
        THEN [c EXCEPT !.state = "Open", !.openedAt = t]
        ELSE c

\* ------------------------------------------------------------- the store
Terminal(st) == st \in {"SENT", "DLQ"}

\* seedMessages(n) at time t
seedMessages(n, t) ==
    [i \in 1..n |-> [status |-> "PENDING", attempt_count |-> 0, next_attempt_at |-> t]]

RECURSIVE FetchFrom(_, _, _, _, _)
FetchFrom(db, k, rows, limit, t) ==
    IF k > Len(db) \/ Len(rows) >= limit THEN [rows |-> rows, db |-> db]
    ELSE IF db[k].status \in {"PENDING", "FAILED"} /\ db[k].next_attempt_at <= t
    THEN FetchFrom([db EXCEPT ![k].status = "SENDING"], k + 1, Append(rows, k), limit, t)
    ELSE FetchFrom(db, k + 1, rows, limit, t)

\* dbFetchBatch that takes dead letters up again
dbFetchBatch_Requeue(db, limit, t) ==
    FetchFrom([k \in 1..Len(db) |->
                  IF db[k].status = "DLQ" THEN [db[k] EXCEPT !.status = "FAILED"]
                  ELSE db[k]],
              1, <<>>, limit, t)

\* dbFetchBatch that claims one row more than asked
dbFetchBatch_OneMore(db, limit, t) == FetchFrom(db, 1, <<>>, limit + 1, t)

\* dbFetchBatch(limit) at time t: the rows claimed (their indices) and the store
dbFetchBatch(db, limit, t) == FetchFrom(db, 1, <<>>, limit, t)

dbMarkSent(db, id) == [db EXCEPT ![id].status = "SENT"]

\* dbScheduleRetry that leaves the row due at once
dbScheduleRetry_Now(db, id, nextAttempt, delayMs, t) ==
    [db EXCEPT ![id].status = "FAILED",
               ![id].attempt_count = nextAttempt,
               ![id].next_attempt_at = t]

\* dbScheduleRetry(id, nextAttempt, delaySec) at time t, the delay in ms
dbScheduleRetry(db, id, nextAttempt, delayMs, t) ==
    [db EXCEPT ![id].status = "FAILED",
               ![id].attempt_count = nextAttempt,
               ![id].next_attempt_at = t + delayMs]

dbMoveToDLQ(db, id) == [db EXCEPT ![id].status = "DLQ"]

\* onFail without its dead-letter branch
onFail_NoDLQ(db, id, t, jitterMs) ==
    LET nextAttempt == db[id].attempt_count + 1
        base        == Min(Pow2(Min(nextAttempt, 9)), BACKOFF_CAP_S)
        backoffMs   == base * 1000 + jitterMs
    IN  [db |-> dbScheduleRetry(db, id, nextAttempt, backoffMs, t),
         op |-> "scheduleRetry"]

\* an onFail that gives up one failure early
onFail_EarlyDLQ(db, id, t, jitterMs) ==
    LET nextAttempt == db[id].attempt_count + 1
        base        == Min(Pow2(nextAttempt), BACKOFF_CAP_S)
        backoffMs   == base * 1000 + jitterMs
    IN  IF nextAttempt >= RETRY_MAX - 1
        THEN [db |-> dbMoveToDLQ(db, id), op |-> "moveToDLQ"]
        ELSE [db |-> dbScheduleRetry(db, id, nextAttempt, backoffMs, t),
              op |-> "scheduleRetry"]

\* onFail(row) at time t; jitterMs is Math.random() in milliseconds.
\* The result names the store operation it called.
onFail(db, id, t, jitterMs) ==
    LET nextAttempt == db[id].attempt_count + 1
        base        == Min(Pow2(nextAttempt), BACKOFF_CAP_S)
        backoffMs   == base * 1000 + jitterMs
    IN  IF nextAttempt >= RETRY_MAX
        THEN [db |-> dbMoveToDLQ(db, id), op |-> "moveToDLQ"]
        ELSE [db |-> dbScheduleRetry(db, id, nextAttempt, backoffMs, t),
              op |-> "scheduleRetry"]

\* a worker task that finalizes only its successes
finalize_OkOnly(db, id, ok, t, jitterMs) ==
    IF ok THEN [db |-> dbMarkSent(db, id), op |-> "markSent"]
    ELSE [db |-> db, op |-> "none"]

\* the end of a worker task: if (res.ok) dbMarkSent else onFail
finalize(db, id, ok, t, jitterMs) ==
    IF ok THEN [db |-> dbMarkSent(db, id), op |-> "markSent"]
    ELSE onFail(db, id, t, jitterMs)

\* ---------------------------------------------------------- the transport
R200   == [ok |-> TRUE,  status |-> 200, retryAfterMs |-> 0,    thrown |-> FALSE]
R429   == [ok |-> FALSE, status |-> 429, retryAfterMs |-> 2999, thrown |-> FALSE]
R503   == [ok |-> FALSE, status |-> 503, retryAfterMs |-> 0,    thrown |-> FALSE]
R404   == [ok |-> FALSE, status |-> 404, retryAfterMs |-> 0,    thrown |-> FALSE]
RThrow == [ok |-> FALSE, status |-> 0,   retryAfterMs |-> 0,    thrown |-> TRUE]

\* A plan: the transport calls made for the item end as the entries of
\* `pre`, in turn, and as `rest` once `pre` is used up; every call takes
\* `lat` ms.
Plans ==
    { [pre |-> <<>>,                                   rest |-> R200, lat |-> 30],
      [pre |-> <<R503, R503, R503, R503, R503, R503>>, rest |-> R200, lat |-> 30],
      [pre |-> <<>>,                                   rest |-> R503, lat |-> 600],
      [pre |-> <<R429, RThrow>>,                       rest |-> R200, lat |-> 600] }
Jitters == {0, 999}

\* plans of a server that keeps answering 429 with a retry-after, next to
\* one that recovers after a 429 and a timeout and a slow one that keeps
\* answering 503
PlansBusy ==
    { [pre |-> <<R429, RThrow>>, rest |-> R200, lat |-> 600],
      [pre |-> <<>>,             rest |-> R429, lat |-> 30],
      [pre |-> <<>>,             rest |-> R503, lat |-> 600] }

\* The plan of scenario S3 of the specification: a transport that answers
\* 404 for one id.  fakeChatServerAPI itself never answers a 4xx other than
\* 429 (R404 is not among its returns); sendToChatServer has a branch for
\* such an answer, and this plan is what makes it run.
PlansReject ==
    { [pre |-> <<>>, rest |-> R404, lat |-> 30] }

\* fakeChatServerAPI: what the c-th call made for an item returns or throws
fakeChatServerAPI(plan, c) == IF c <= Len(plan.pre) THEN plan.pre[c] ELSE plan.rest

\* sendToChatServer after an attempt ended with r: "ok" (return ok),
\* "fail" (return not ok) or "retry" (sleep and attempt again)
attemptResult(attempt, r) ==
    IF r.thrown
    THEN IF attempt >= RETRY_MAX THEN "fail" ELSE "retry"
    ELSE IF r.ok THEN "ok"
    ELSE IF attempt >= RETRY_MAX
            \/ (r.status >= 400 /\ r.status < 500 /\ r.status # 429)
    THEN "fail"
    ELSE "retry"

\* the sleep of sendToChatServer before its next attempt
retryWait(attempt, r, jitterMs) ==
    LET backoff == Min(Pow2(attempt), BACKOFF_CAP_S) * 1000
    IN  IF r.thrown THEN backoff + jitterMs
        ELSE Max(r.retryAfterMs, backoff + jitterMs)

\* ------------------------------------------------------------- the state
\* task[i]: the worker task of item i (queue.add of processBatch).
\*   pc: "none" | "queued" | "blockSleep" (sleep(50) of the breaker loop)
\*     | "takeSleep" (sleep(10) of bucket.take) | "taken" (bucket.take() has
\*     returned with the token; the task waits at its await for the
\*     microtask that goes on to sendToChatServer) | "sending" (the transport
\*     call is in flight, it ends at wakeAt) | "retrySleep" (the backoff)
\*   attempt, start: the locals of sendToChatServer
NoTask == [pc |-> "none", wakeAt |-> 0, attempt |-> 0, start |-> 0]

\* h: what has happened (read by the properties only)
HInit ==
    [sendLog   |-> <<>>,                       \* the last transport invocations
     openSend  |-> FALSE,                     \* the last one found the breaker Open, timer running
     okRet     |-> [i \in Items |-> 0],        \* returns of sendToChatServer with ok
     failRet   |-> [i \in Items |-> 0],        \* ... with not ok
     markSent  |-> [i \in Items |-> 0],        \* calls of dbMarkSent
     schedRetry|-> [i \in Items |-> 0],        \* calls of dbScheduleRetry
     moveToDLQ |-> [i \in Items |-> 0],        \* calls of dbMoveToDLQ
     perm      |-> [i \in Items |-> 0],        \* calls[i] when a 4xx other than 429 first came back
     busy      |-> [i \in Items |-> 0],        \* the last response was a 429: its time + retryAfterMs
     lastFail  |-> [i \in Items |-> [at |-> 0, a |-> -1]],  \* the last onFail: its time, the counter it read
     claimed   |-> [i \in Items |-> -1],       \* time of the last dbFetchBatch that returned the row
     live      |-> [i \in Items |-> 0],        \* worker tasks added for the row and not yet ended
     gated     |-> [i \in Items |-> 0],        \* transport invocations made right after a breaker check and a token
     sigLive   |-> -1,                        \* worker tasks not yet ended when SIGTERM came
     tick      |-> [n |-> 0, bad |-> FALSE, old |-> 0, new |-> 0, depth |-> 0,
                    rate |-> 0, halfOpen |-> FALSE,
                    at |-> 0, oldest |-> 0] ]         \* its time, the oldest point it read

InitPipeWith(variants, plans) ==
    /\ sys \in variants
    /\ now = 0
    /\ DB = seedMessages(NItems, 0)
    /\ bucket = TokenBucket(WARMUP_RPS, 0)
    /\ tbCall = NoCall
    /\ win = <<>>
    /\ sentCount = 0
    /\ CB = CBInit
    /\ MAX_RPS = INITIAL_MAX_RPS
    /\ task = [i \in Items |-> NoTask]
    /\ mainPc = [pc |-> "start", wakeAt |-> 0]
    /\ ctl = [pc |-> "warmup", wakeAt |-> WarmupMs(sys)]
    /\ shuttingDown = FALSE
    /\ env \in [plan : [Items -> plans], jitter : Jitters]
    /\ calls = [i \in Items |-> 0]
    /\ h = HInit
    /\ AIMDIdle /\ CBIdle /\ ObjIdle

InitPipeOf(variants) == InitPipeWith(variants, Plans)

InitPipe == InitPipeOf({"simulate"})

Alive == IsPipe /\ mainPc.pc # "exit0"

Running == {i \in Items : task[i].pc \notin {"none", "queued"}}
Queued  == {i \in Items : task[i].pc = "queued"}

\* the tasks whose `await bucket.take()` has its continuation in the microtask
\* queue; microtasks run before the next timer callback
Taken   == {i \in Items : task[i].pc = "taken"}

\* ------------------------------------------------------------ the workers
\* The transport is invoked for item i by its task (fakeChatServerAPI is
\* entered): attempt++, start = Date.now(), and the call is in flight.
invoke(tk, i, t, plan) ==
    [tk EXCEPT ![i] = [pc |-> "sending", wakeAt |-> t + plan.lat,
                       attempt |-> tk[i].attempt + 1, start |-> t]]

KeepLast(q, n) == IF Len(q) > n THEN SubSeq(q, Len(q) - n + 1, Len(q)) ELSE q

logSend(hh, i, t, b, cb) ==
    [hh EXCEPT !.sendLog  = KeepLast(Append(@, [t |-> t, rate |-> b.rate,
                                                capacity |-> b.capacity]), LogKeep),
               !.openSend = (cb.state = "Open" /\ t - cb.openedAt < OPEN_MS)]

\* Polling loops.  A loop `while (!cond) await sleep(d)` polls every d ms.
\* A poll that finds cond false changes nothing but the bucket's refill
\* point (see polled), so the model lets the task sleep through the polls
\* that are bound to fail and wake at the first poll, k*d ms later, that can
\* succeed (or is the last one before the rate changes).

\* while (CB.shouldBlock()) await sleep(50), after a poll at t that blocked:
\* the breaker stays Open until a shouldBlock at or after openedAt + OPEN_MS
blockedUntil(cb, t) ==
    t + BLOCK_SLEEP_MS * Max(1, CeilDiv(cb.openedAt + OPEN_MS - t, BLOCK_SLEEP_MS))

\* bucket.take(), after a poll at t that left b short of a token; the
\* controller's timer, which may change the rate, is due at ctlAt
takeUntil(b, t, ctlAt) ==
    LET need == IF b.rate > 0
                THEN Max(1, CeilDiv(1000 - b.tokens, TAKE_SLEEP_MS * b.rate))
                ELSE 1
        kT   == (ctlAt - t - 1) \div TAKE_SLEEP_MS
    IN  t + TAKE_SLEEP_MS * (IF ctlAt > t /\ kT >= 1 THEN Min(need, kT) ELSE 1)

\* The body of a worker task up to the await of bucket.take():
\*   while (CB.shouldBlock()) await sleep(50);  await bucket.take();
\* entered at the breaker loop (atBreaker) or inside the loop of take().
\* When take() returns, at once or after its sleeps, the await yields: the
\* task goes on to sendToChatServer(row) in a microtask (SendToChatServer).
workerTurn(i, atBreaker) ==
    LET sb == IF atBreaker THEN CB_shouldBlock(CB, now)
              ELSE [block |-> FALSE, cb |-> CB]
    IN  IF sb.block
        THEN /\ task' = [task EXCEPT ![i].pc = "blockSleep",
                                     ![i].wakeAt = blockedUntil(sb.cb, now)]
             /\ CB' = sb.cb
             /\ UNCHANGED <<bucket, calls, h>>
        ELSE /\ CB' = sb.cb
             /\ \E e \in Roundings(bucket, now) :
                   LET tk == tryTake(bucket, now, e)
                   IN  IF tk.ok
                       THEN /\ bucket' = tk.b
                            /\ task' = [task EXCEPT ![i].pc = "taken", ![i].wakeAt = 0]
                            /\ UNCHANGED <<calls, h>>
                       ELSE /\ bucket' = polled(tk.b)
                            /\ task' = [task EXCEPT ![i].pc = "takeSleep",
                                           ![i].wakeAt = takeUntil(tk.b, now, ctl.wakeAt)]
                            /\ UNCHANGED <<calls, h>>

\* p-queue starts the queued tasks in the order they were added, at most
\* CONCURRENCY at a time.
StartTask(i) ==
    /\ Alive
    /\ task[i].pc = "queued"
    /\ \A j \in Queued : i <= j
    /\ Cardinality(Running) < CONCURRENCY
    /\ workerTurn(i, TRUE)
    /\ UNCHANGED <<sys, objVars, now, tbCall, DB, win, sentCount, MAX_RPS, mainPc, ctl,
                   shuttingDown, env, aimdVars, cbVars>>

\* The microtask after `await bucket.take()`: sendToChatServer(row) is
\* called and makes its first transport call.  The loop of processBatch adds
\* every row of the batch before any microtask runs, and the microtasks run
\* in the order in which the takes returned.
SendToChatServer(i) ==
    /\ Alive
    /\ task[i].pc = "taken"
    /\ Queued = {} \/ Cardinality(Running) >= CONCURRENCY
    /\ \A j \in Taken : i <= j
    /\ task' = invoke(task, i, now, env.plan[i])
    /\ calls' = [calls EXCEPT ![i] = @ + 1]
    /\ h' = [logSend(h, i, now, bucket, CB) EXCEPT !.gated[i] = @ + 1]
    /\ UNCHANGED <<sys, objVars, now, tbVars, DB, win, sentCount, CB, MAX_RPS, mainPc, ctl,
                   shuttingDown, env, aimdVars, cbVars>>

WakeBlocked(i) ==
    /\ Alive
    /\ Taken = {}
    /\ task[i].pc = "blockSleep" /\ task[i].wakeAt <= now
    /\ workerTurn(i, TRUE)
    /\ UNCHANGED <<sys, objVars, now, tbCall, DB, win, sentCount, MAX_RPS, mainPc, ctl,
                   shuttingDown, env, aimdVars, cbVars>>

WakeTake(i) ==
    /\ Alive
    /\ Taken = {}
    /\ task[i].pc = "takeSleep" /\ task[i].wakeAt <= now
    /\ workerTurn(i, FALSE)
    /\ UNCHANGED <<sys, objVars, now, tbCall, DB, win, sentCount, MAX_RPS, mainPc, ctl,
                   shuttingDown, env, aimdVars, cbVars>>

\* the backoff of sendToChatServer is over: the next attempt, with neither a
\* breaker check nor a token
WakeRetry(i) ==
    /\ Alive
    /\ Taken = {}
    /\ task[i].pc = "retrySleep" /\ task[i].wakeAt <= now
    /\ task' = invoke(task, i, now, env.plan[i])
    /\ calls' = [calls EXCEPT ![i] = @ + 1]
    /\ h' = logSend(h, i, now, bucket, CB)
    /\ UNCHANGED <<sys, objVars, now, tbVars, DB, win, sentCount, CB, MAX_RPS, mainPc, ctl,
                   shuttingDown, env, aimdVars, cbVars>>

noteFinal(hh, i, res, op) ==
    [hh EXCEPT !.okRet[i]      = @ + (IF res = "ok" THEN 1 ELSE 0),
               !.failRet[i]    = @ + (IF res = "fail" THEN 1 ELSE 0),
               !.markSent[i]   = @ + (IF op = "markSent" THEN 1 ELSE 0),
               !.schedRetry[i] = @ + (IF op = "scheduleRetry" THEN 1 ELSE 0),
               !.moveToDLQ[i]  = @ + (IF op = "moveToDLQ" THEN 1 ELSE 0)]

\* The transport call of item i ends: record, breaker, then return (and the
\* task finalizes the item) or sleep before the next attempt.
Response(i) ==
    /\ Alive
    /\ Taken = {}
    /\ task[i].pc = "sending" /\ task[i].wakeAt <= now
    /\ LET r   == fakeChatServerAPI(env.plan[i], calls[i])
           ms  == now - task[i].start
           res == attemptResult(task[i].attempt, r)
           fin == finalize(DB, i, res = "ok", now, env.jitter)
           h1  == [h EXCEPT !.perm[i] =
                      IF @ = 0 /\ ~r.thrown /\ r.status >= 400 /\ r.status < 500
                               /\ r.status # 429
                      THEN calls[i] ELSE @,
                            !.busy[i] =
                      IF ~r.thrown /\ r.status = 429 /\ r.retryAfterMs > 0
                      THEN now + r.retryAfterMs ELSE 0]
       IN  /\ win' = record(win, now, ms, r.ok /\ ~r.thrown)
           /\ sentCount' = sentCount + (IF r.ok /\ ~r.thrown THEN 1 ELSE 0)
           /\ CB' = IF r.ok /\ ~r.thrown THEN CB_onSuccess(CB, now)
                    ELSE CB_onFailure(CB, now)
           /\ IF res = "retry"
              THEN /\ task' = [task EXCEPT ![i].pc = "retrySleep",
                                  ![i].wakeAt = now + retryWait(task[i].attempt, r, env.jitter)]
                   /\ DB' = DB
                   /\ h' = h1
              ELSE /\ task' = [task EXCEPT ![i] = NoTask]
                   /\ DB' = fin.db
                   /\ h' = [noteFinal(h1, i, res, fin.op) EXCEPT !.lastFail[i] =
                               IF res = "ok" THEN @
                               ELSE [at |-> now, a |-> DB[i].attempt_count],
                                                                !.live[i] = @ - 1]
    /\ UNCHANGED <<sys, objVars, now, tbVars, MAX_RPS, mainPc, ctl, shuttingDown, env,
                   calls, aimdVars, cbVars>>

\* ---------------------------------------------------------- the main loop
AllTerminal(db) == \A k \in 1..Len(db) : Terminal(db[k].status)

\* else await sleep(300), after a fetch at t that found no row: the store
\* does not change while main sleeps (no task is running), so the polls before
\* the first FAILED row is due find nothing
RECURSIVE MinDue(_, _)
MinDue(db, k) ==
    IF k > Len(db) THEN -1
    ELSE LET rest == MinDue(db, k + 1)
             mine == IF db[k].status \in {"PENDING", "FAILED"}
                     THEN db[k].next_attempt_at ELSE -1
         IN  IF mine < 0 THEN rest
             ELSE IF rest < 0 THEN mine
             ELSE Min(mine, rest)

idleUntil(db, t) ==
    t + IDLE_SLEEP_MS * Max(1, CeilDiv(MinDue(db, 1) - t, IDLE_SLEEP_MS))

\* main(): one turn of its loop, from the point where it was waiting
\* (queue.onIdle() of processBatch, or sleep(300)) to the next wait:
\*   the exit test; if (shuttingDown) break; dbFetchBatch; processBatch | sleep
MainLoop ==
    /\ Alive
    /\ Taken = {}
    /\ CASE mainPc.pc = "start"  -> TRUE
         [] mainPc.pc = "onIdle" -> \A i \in Items : task[i].pc = "none"
         [] mainPc.pc = "sleep"  -> mainPc.wakeAt <= now
         [] OTHER                -> FALSE
    /\ LET f == dbFetchBatch(DB, BATCH_SIZE, now)
       IN  IF mainPc.pc # "start" /\ AllTerminal(DB)
           THEN /\ mainPc' = [pc |-> "exit0", wakeAt |-> 0]
                /\ UNCHANGED <<DB, task, h>>
           ELSE IF shuttingDown
           THEN /\ mainPc' = [pc |-> "break", wakeAt |-> 0]
                /\ UNCHANGED <<DB, task, h>>
           ELSE /\ DB' = f.db
                /\ h' = [h EXCEPT !.claimed = [i \in Items |->
                                      IF \E k \in 1..Len(f.rows) : f.rows[k] = i
                                      THEN now ELSE @[i]],
                                  !.live = [i \in Items |->
                                      IF \E k \in 1..Len(f.rows) : f.rows[k] = i
                                      THEN @[i] + 1 ELSE @[i]]]
                /\ IF Len(f.rows) > 0
                   THEN /\ task' = [i \in Items |->
                                      IF \E k \in 1..Len(f.rows) : f.rows[k] = i
                                      THEN [NoTask EXCEPT !.pc = "queued"]
                                      ELSE task[i]]
                        /\ mainPc' = [pc |-> "onIdle", wakeAt |-> 0]
                   ELSE /\ task' = task
                        /\ mainPc' = [pc |-> "sleep", wakeAt |-> idleUntil(f.db, now)]
    /\ UNCHANGED <<sys, objVars, now, tbVars, win, sentCount, CB, MAX_RPS, ctl,
                   shuttingDown, env, calls, aimdVars, cbVars>>

\* --------------------------------------------------------- the controller
\* pendingDepth() at time t
pendingDepth(db, t) ==
    Cardinality({k \in 1..Len(db) :
                    \/ db[k].status = "PENDING"
                    \/ (db[k].status = "FAILED" /\ db[k].next_attempt_at <= t)})

\* controller(): await sleep(WARMUP_MS) is over; bucket.setRate(MAX_RPS) and
\* the interval is armed
WarmupEnd ==
    /\ Alive
    /\ Taken = {}
    /\ ctl.pc = "warmup" /\ ctl.wakeAt <= now
    /\ bucket' = setRate(bucket, MAX_RPS)
    /\ ctl' = [pc |-> "interval", wakeAt |-> now + RampEvery(sys)]
    /\ UNCHANGED <<sys, objVars, now, tbCall, DB, win, sentCount, CB, MAX_RPS, task, mainPc,
                   shuttingDown, env, calls, h, aimdVars, cbVars>>

BadSignals(w) ==
    RatioGT(errorRate(w), [num |-> 5, den |-> 100]) \/ p95Latency(w) > 400

\* an interval callback that never decreases
aimdStep_NoDecrease(v, rps, bad, depth) ==
    IF bad THEN rps
    ELSE IF v = "demo" /\ ~(depth > 0) THEN rps
    ELSE rps + RAMP_STEP

\* the AIMD step of the interval callback: the new MAX_RPS.  In the demo the
\* increase is taken only while pendingDepth() > 0.
aimdStep(v, rps, bad, depth) ==
    IF bad THEN Max(1, rps \div 2)
    ELSE IF v = "demo" /\ ~(depth > 0) THEN rps
    ELSE rps + RAMP_STEP

\* the rate the interval callback leaves in the bucket
tickRate(rps, cbState) ==
    IF cbState = "HalfOpen" THEN Min(rps, HALF_OPEN_PROBE_RPS) ELSE rps

\* the bucket after the callback's setRate calls: setRate(MAX_RPS) when the
\* AIMD branch ran, then the HalfOpen clamp
tickBucket(b, v, rps, bad, depth, cbState) ==
    LET b1 == IF ~bad /\ v = "demo" /\ ~(depth > 0) THEN b ELSE setRate(b, rps)
    IN  IF cbState = "HalfOpen"
        THEN setRate(b1, Min(rps, HALF_OPEN_PROBE_RPS))
        ELSE b1

ControllerTick ==
    /\ Alive
    /\ Taken = {}
    /\ ctl.pc = "interval" /\ ctl.wakeAt <= now
    /\ LET bad   == BadSignals(win)
           depth == pendingDepth(DB, now)
           rps   == aimdStep(sys, MAX_RPS, bad, depth)
       IN  /\ MAX_RPS' = rps
           /\ bucket' = tickBucket(bucket, sys, rps, bad, depth, CB.state)
           /\ h' = [h EXCEPT !.tick = [n |-> @.n + 1, bad |-> bad, old |-> MAX_RPS,
                                       new |-> rps, depth |-> depth,
                                       rate |-> bucket'.rate,
                                       halfOpen |-> (CB.state = "HalfOpen"),
                                       at |-> now,
                                       oldest |-> IF Len(win) = 0 THEN now
                                                  ELSE win[1].t]]
    /\ ctl' = [ctl EXCEPT !.wakeAt = @ + RampEvery(sys)]
    /\ UNCHANGED <<sys, objVars, now, tbCall, DB, win, sentCount, CB, task, mainPc,
                   shuttingDown, env, calls, aimdVars, cbVars>>

\* ---------------------------------------------------------------- the clock
MainReady ==
    CASE mainPc.pc = "start"  -> TRUE
      [] mainPc.pc = "onIdle" -> \A i \in Items : task[i].pc = "none"
      [] mainPc.pc = "sleep"  -> mainPc.wakeAt <= now
      [] OTHER                -> FALSE

Sleeping(i) == task[i].pc \in {"blockSleep", "takeSleep", "sending", "retrySleep"}

Timers ==
    {ctl.wakeAt}
      \cup {task[i].wakeAt : i \in {j \in Items : Sleeping(j)}}
      \cup (IF mainPc.pc = "sleep" THEN {mainPc.wakeAt} ELSE {})

NextTimer == CHOOSE t \in Timers : \A u \in Timers : t <= u

\* a queue whose onIdle() resolves without waiting for the tasks
onIdle_AtOnce(tk) == TRUE

\* queue.onIdle() resolves: no task is queued or running
onIdle(tk) == \A i \in Items : tk[i].pc = "none"

\* nothing is ready: the clock moves to the next timer
Advance ==
    /\ Alive
    /\ Taken = {}
    /\ ~MainReady
    /\ ~(shuttingDown /\ onIdle(task))
    /\ Queued = {} \/ Cardinality(Running) >= CONCURRENCY
    /\ NextTimer > now
    /\ NextTimer <= MaxTime
    /\ now' = NextTimer
    /\ UNCHANGED <<sys, objVars, tbVars, pipeVars, aimdVars, cbVars>>

NextPipe ==
    \/ \E i \in Items : StartTask(i)
    \/ \E i \in Items : SendToChatServer(i)
    \/ \E i \in Items : WakeBlocked(i)
    \/ \E i \in Items : WakeTake(i)
    \/ \E i \in Items : WakeRetry(i)
    \/ \E i \in Items : Response(i)
    \/ MainLoop
    \/ WarmupEnd
    \/ ControllerTick
    \/ Advance

SpecPipe == InitPipe /\ [][NextPipe]_vars

\* ------------------------------------------------------------ the signal
\* process.on('SIGTERM'): the handler runs between two turns of the event
\* loop, once main() is in its loop; it sets the flag and awaits
\* queue.onIdle()
Sigterm ==
    /\ Alive
    /\ Taken = {}
    /\ ~shuttingDown
    /\ mainPc.pc \in {"onIdle", "sleep"}
    /\ shuttingDown' = TRUE
    /\ h' = [h EXCEPT !.sigLive = Cardinality({i \in Items : task[i].pc # "none"})]
    /\ UNCHANGED <<sys, objVars, now, tbVars, DB, win, sentCount, CB, MAX_RPS, task,
                   mainPc, ctl, env, calls, aimdVars, cbVars>>

\* the handler after its await: process.exit(0)
SigtermExit ==
    /\ Alive
    /\ Taken = {}
    /\ shuttingDown
    /\ onIdle(task)
    /\ mainPc' = [pc |-> "exit0", wakeAt |-> 0]
    /\ UNCHANGED <<sys, objVars, now, tbVars, DB, win, sentCount, CB, MAX_RPS, task,
                   ctl, shuttingDown, env, calls, h, aimdVars, cbVars>>

NextShutdown == NextPipe \/ Sigterm \/ SigtermExit

SpecShutdown == InitPipe /\ [][NextShutdown]_vars

\* =========================================================================
\* AIMDController                                  (src/unnamed/part_000)
\* =========================================================================
Half == [num |-> 1, den |-> 2]

\* constructor(options) at time t
AIMDController(o, t) ==
    [currentRate          |-> OrDefault(o.initialRate, 5),
     minRate              |-> OrDefault(o.minRate, 1),
     maxRate              |-> OrDefault(o.maxRate, 100),
     additiveStep         |-> OrDefault(o.additiveStep, 1),
     multiplicativeFactor |-> IF o.multiplicativeFactor.num = 0 THEN Half
                              ELSE o.multiplicativeFactor,
     errorThreshold       |-> [num |-> 5, den |-> 100],
     latencyThreshold     |-> OrDefault(o.latencyThreshold, 400),
     warmupDuration       |-> OrDefault(o.warmupDuration, 60000),
     warmupRate           |-> OrDefault(o.warmupRate, 1),
     startTime            |-> t,
     warmupComplete       |-> FALSE,
     listenerThrows       |-> o.listenerThrows]

\* a warmup test that still holds at the instant warmupDuration has passed
AIMD_inWarmup_OneMore(c, t) == ~c.warmupComplete /\ t - c.startTime <= c.warmupDuration

\* !this.warmupComplete && Date.now() - this.startTime < this.warmupDuration
AIMD_inWarmup(c, t) == ~c.warmupComplete /\ t - c.startTime < c.warmupDuration

AIMD_bad(c, errRate, p95) ==
    RatioGT(errRate, c.errorThreshold) \/ p95 > c.latencyThreshold

\* Math.max(minRate, Math.floor(currentRate * multiplicativeFactor))
AIMD_decrease(c) ==
    Max(c.minRate,
        (c.currentRate * c.multiplicativeFactor.num) \div c.multiplicativeFactor.den)

\* Math.min(maxRate, currentRate + additiveStep)
AIMD_increase(c) == Min(c.maxRate, c.currentRate + c.additiveStep)

\* update(errorRate, p95Latency) at time t: the value returned, the
\* controller afterwards and the calls made to onRateChange, in order
AIMD_update(c, errRate, p95, t) ==
    IF AIMD_inWarmup(c, t)
    THEN [ret |-> c.warmupRate, c |-> c, events |-> <<>>, threw |-> FALSE]
    ELSE LET ev1  == IF ~c.warmupComplete
                     THEN << [old |-> c.warmupRate, new |-> c.currentRate,
                              reason |-> "warmup_complete"] >>
                     ELSE <<>>
             bad  == AIMD_bad(c, errRate, p95)
             rate == IF bad THEN AIMD_decrease(c) ELSE AIMD_increase(c)
             ev2  == IF rate # c.currentRate
                     THEN << [old |-> c.currentRate, new |-> rate,
                              reason |-> IF bad THEN "decrease" ELSE "increase"] >>
                     ELSE <<>>
         IN  IF c.listenerThrows /\ ev1 # <<>>
             THEN [ret    |-> 0,
                   c      |-> [c EXCEPT !.warmupComplete = TRUE],
                   events |-> ev1, threw |-> TRUE]
             ELSE IF c.listenerThrows /\ ev2 # <<>>
             THEN [ret    |-> 0,
                   c      |-> [c EXCEPT !.warmupComplete = TRUE, !.currentRate = rate],
                   events |-> ev2, threw |-> TRUE]
             ELSE [ret    |-> rate,
                   c      |-> [c EXCEPT !.warmupComplete = TRUE, !.currentRate = rate],
                   events |-> ev1 \o ev2, threw |-> FALSE]

\* getCurrentRate() without the warmup test
AIMD_getCurrentRate_NoWarmup(c, t) == c.currentRate

\* getCurrentRate() at time t
AIMD_getCurrentRate(c, t) ==
    IF AIMD_inWarmup(c, t) THEN c.warmupRate ELSE c.currentRate

\* setRate(rate): no call of onRateChange is made
AIMD_setRate(c, rate) ==
    [c EXCEPT !.currentRate = Max(c.minRate, Min(c.maxRate, rate))]

\* reset() at time t
AIMD_reset(c, t) ==
    [c EXCEPT !.currentRate = c.minRate, !.warmupComplete = FALSE, !.startTime = t]

\* -------------------------------------------- a caller of the controller
AIMDOptions ==
    [initialRate : {0, 1, 3}, minRate : {0, 2}, maxRate : {0, 4},
     additiveStep : {0, 2},
     multiplicativeFactor : {[num |-> 0, den |-> 1], [num |-> 3, den |-> 4]},
     latencyThreshold : {0}, warmupDuration : {0, 30000}, warmupRate : {0, 2},
     listenerThrows : {FALSE}]
\* the default controller and one with a shorter warmup, given an
\* options.onRateChange that throws
AIMDOptionsThrowing ==
    [initialRate : {0}, minRate : {0}, maxRate : {0}, additiveStep : {0},
     multiplicativeFactor : {[num |-> 0, den |-> 1]},
     latencyThreshold : {0}, warmupDuration : {0, 30000}, warmupRate : {0},
     listenerThrows : {TRUE}]
AIMDSignals ==
    { [e |-> [num |-> 0, den |-> 1],  p |-> 0],
      [e |-> [num |-> 1, den |-> 20], p |-> 400],
      [e |-> [num |-> 1, den |-> 10], p |-> 0],
      [e |-> [num |-> 0, den |-> 1],  p |-> 401] }
AIMDSetRates   == {0, 3, 200}
AIMDClockSteps == {30000}

\* the calls of onRateChange with the reason warmup_complete among ev
WarmupEvents(ev) ==
    Cardinality({k \in 1..Len(ev) : ev[k].reason = "warmup_complete"})

\* aimdCall: the last call (op, at, arg, ret, events, threw), the controller
\* before it (pre), and the warmup_complete notifications so far: all of them
\* (wc) and those since the construction or the last reset() (wcSince)
InitAIMDOf(options) ==
    /\ sys = "aimd"
    /\ now = 0
    /\ \E o \in options :
          /\ aimd = AIMDController(o, 0)
          /\ aimdCall = [op |-> "new", at |-> 0, arg |-> o, ret |-> 0,
                         pre |-> 0, events |-> <<>>, threw |-> FALSE,
                         wc |-> 0, wcSince |-> 0]
    /\ bucket = 0 /\ tbCall = NoCall
    /\ PipeIdle /\ CBIdle /\ ObjIdle

InitAIMD == InitAIMDOf(AIMDOptions)

AIMD_Clock ==
    /\ sys = "aimd"
    /\ \E d \in AIMDClockSteps :
          /\ now + d <= AIMDMaxTime
          /\ now' = now + d
    /\ UNCHANGED <<sys, objVars, tbVars, pipeVars, aimdVars, cbVars>>

AIMD_Update ==
    /\ sys = "aimd"
    /\ \E sg \in AIMDSignals :
          LET r == AIMD_update(aimd, sg.e, sg.p, now)
          IN  /\ aimd' = r.c
              /\ aimdCall' = [op |-> "update", at |-> now, arg |-> sg, ret |-> r.ret,
                              pre |-> aimd, events |-> r.events, threw |-> r.threw,
                              wc |-> aimdCall.wc + WarmupEvents(r.events),
                              wcSince |-> aimdCall.wcSince + WarmupEvents(r.events)]
    /\ UNCHANGED <<sys, objVars, now, tbVars, pipeVars, cbVars>>

AIMD_GetCurrentRate ==
    /\ sys = "aimd"
    /\ aimdCall' = [op |-> "getCurrentRate", at |-> now, arg |-> 0,
                    ret |-> AIMD_getCurrentRate(aimd, now),
                    pre |-> aimd, events |-> <<>>, threw |-> FALSE,
                    wc |-> aimdCall.wc, wcSince |-> aimdCall.wcSince]
    /\ UNCHANGED <<sys, objVars, now, tbVars, pipeVars, cbVars, aimd>>

AIMD_SetRate ==
    /\ sys = "aimd"
    /\ \E r \in AIMDSetRates :
          /\ aimd' = AIMD_setRate(aimd, r)
          /\ aimdCall' = [op |-> "setRate", at |-> now, arg |-> r,
                          ret |-> aimd'.currentRate, pre |-> aimd, events |-> <<>>,
                          threw |-> FALSE,
                          wc |-> aimdCall.wc, wcSince |-> aimdCall.wcSince]
    /\ UNCHANGED <<sys, objVars, now, tbVars, pipeVars, cbVars>>

AIMD_Reset ==
    /\ sys = "aimd"
    /\ aimd' = AIMD_reset(aimd, now)
    /\ aimdCall' = [op |-> "reset", at |-> now, arg |-> 0, ret |-> 0,
                    pre |-> aimd, events |-> <<>>, threw |-> FALSE,
                    wc |-> aimdCall.wc, wcSince |-> 0]
    /\ UNCHANGED <<sys, objVars, now, tbVars, pipeVars, cbVars>>

NextAIMD ==
    \/ AIMD_Clock
    \/ AIMD_Update
    \/ AIMD_GetCurrentRate
    \/ AIMD_SetRate
    \/ AIMD_Reset

SpecAIMD == InitAIMD /\ [][NextAIMD]_vars

\* =========================================================================
\* CircuitBreaker                                  (src/unnamed/part_001)
\* =========================================================================
CBMaxTime     == 60000    \* the CircuitBreaker clock stops here (ms)
CBMaxFailures == 11       \* onFailure is not called beyond this count
CBMaxOks      == 3        \* successes of one half-open period counted up to this

\* constructor(options); listenerThrows says what options.onStateChange does
CircuitBreaker(o) ==
    [state               |-> "Closed",
     openedAt            |-> 0,
     halfOpenUntil       |-> 0,
     consecutiveFailures |-> 0,
     failureThreshold    |-> OrDefault(o.failureThreshold, 10),
     openDurationMs      |-> OrDefault(o.openDurationMs, 30000),
     halfOpenDurationMs  |-> OrDefault(o.halfOpenDurationMs, 10000),
     halfOpenProbeLimit  |-> OrDefault(o.halfOpenProbeLimit, 3),
     listenerThrows      |-> o.listenerThrows]

\* a transition() that assigns the state and calls no listener
transition_Silent(c, newState) ==
    [c      |-> [c EXCEPT !.state = newState],
     events |-> <<>>,
     threw  |-> FALSE]

\* transition(newState): the state is assigned, then the listener is called
\* with (oldState, newState); what the listener can read of the breaker at
\* that moment is recorded with the call.  threw: the listener's exception
\* leaves transition().
transition(c, newState) ==
    [c      |-> [c EXCEPT !.state = newState],
     events |-> << [from |-> c.state, to |-> newState,
                    openedAt |-> c.openedAt, halfOpenUntil |-> c.halfOpenUntil,
                    consecutiveFailures |-> c.consecutiveFailures] >>,
     threw  |-> c.listenerThrows]

\* a shouldBlock() that leaves the failure counter as it is
shouldBlock_KeepsCount(c, t) ==
    IF c.state = "Open"
    THEN IF t - c.openedAt >= c.openDurationMs
         THEN LET tr == transition(c, "HalfOpen")
              IN  IF tr.threw
                  THEN [ret |-> FALSE, c |-> tr.c, events |-> tr.events, threw |-> TRUE]
                  ELSE [ret    |-> FALSE,
                        c      |-> [tr.c EXCEPT !.halfOpenUntil = t + c.halfOpenDurationMs],
                        events |-> tr.events, threw |-> FALSE]
         ELSE [ret |-> TRUE, c |-> c, events |-> <<>>, threw |-> FALSE]
    ELSE [ret |-> FALSE, c |-> c, events |-> <<>>, threw |-> FALSE]

\* a shouldBlock() that still blocks at the instant the open time is over
shouldBlock_StrictlyLater(c, t) ==
    IF c.state = "Open"
    THEN IF t - c.openedAt > c.openDurationMs
         THEN LET tr == transition(c, "HalfOpen")
              IN  IF tr.threw
                  THEN [ret |-> FALSE, c |-> tr.c, events |-> tr.events, threw |-> TRUE]
                  ELSE [ret    |-> FALSE,
                        c      |-> [tr.c EXCEPT !.halfOpenUntil = t + c.halfOpenDurationMs,
                                                !.consecutiveFailures = 0],
                        events |-> tr.events, threw |-> FALSE]
         ELSE [ret |-> TRUE, c |-> c, events |-> <<>>, threw |-> FALSE]
    ELSE [ret |-> FALSE, c |-> c, events |-> <<>>, threw |-> FALSE]

\* shouldBlock() at time t
shouldBlock(c, t) ==
    IF c.state = "Open"
    THEN IF t - c.openedAt >= c.openDurationMs
         THEN LET tr == transition(c, "HalfOpen")
              IN  IF tr.threw
                  THEN [ret |-> FALSE, c |-> tr.c, events |-> tr.events, threw |-> TRUE]
                  ELSE [ret    |-> FALSE,
                        c      |-> [tr.c EXCEPT !.halfOpenUntil = t + c.halfOpenDurationMs,
                                                !.consecutiveFailures = 0],
                        events |-> tr.events, threw |-> FALSE]
         ELSE [ret |-> TRUE, c |-> c, events |-> <<>>, threw |-> FALSE]
    ELSE [ret |-> FALSE, c |-> c, events |-> <<>>, threw |-> FALSE]

\* an onSuccess() that closes the breaker whatever its state
onSuccess_ClosesOpen(c, t) ==
    LET c1 == [c EXCEPT !.consecutiveFailures = 0]
    IN  IF c1.state # "Closed" /\ t > c1.halfOpenUntil
        THEN transition(c1, "Closed")
        ELSE [c |-> c1, events |-> <<>>, threw |-> FALSE]

\* an onSuccess() that already closes at the last instant of the probe window
onSuccess_ClosesAtUntil(c, t) ==
    LET c1 == [c EXCEPT !.consecutiveFailures = 0]
    IN  IF c1.state = "HalfOpen" /\ t >= c1.halfOpenUntil
        THEN transition(c1, "Closed")
        ELSE [c |-> c1, events |-> <<>>, threw |-> FALSE]

\* onSuccess() at time t
onSuccess(c, t) ==
    LET c1 == [c EXCEPT !.consecutiveFailures = 0]
    IN  IF c1.state = "HalfOpen" /\ t > c1.halfOpenUntil
        THEN transition(c1, "Closed")
        ELSE [c |-> c1, events |-> <<>>, threw |-> FALSE]

\* an onFailure() that opens one failure late
onFailure_OneLate(c, t) ==
    LET c1 == [c EXCEPT !.consecutiveFailures = @ + 1]
    IN  IF \/ c1.state = "Closed" /\ c1.consecutiveFailures > c1.failureThreshold
           \/ c1.state = "HalfOpen"
        THEN LET tr == transition(c1, "Open")
             IN  IF tr.threw THEN tr
                 ELSE [c |-> [tr.c EXCEPT !.openedAt = t],
                       events |-> tr.events, threw |-> FALSE]
        ELSE [c |-> c1, events |-> <<>>, threw |-> FALSE]

\* onFailure() at time t
onFailure(c, t) ==
    LET c1 == [c EXCEPT !.consecutiveFailures = @ + 1]
    IN  IF \/ c1.state = "Closed" /\ c1.consecutiveFailures >= c1.failureThreshold
           \/ c1.state = "HalfOpen"
        THEN LET tr == transition(c1, "Open")
             IN  IF tr.threw THEN tr
                 ELSE [c |-> [tr.c EXCEPT !.openedAt = t],
                       events |-> tr.events, threw |-> FALSE]
        ELSE [c |-> c1, events |-> <<>>, threw |-> FALSE]

\* getState() at time t: state and consecutiveFailures are read, then
\* isBlocking: this.shouldBlock() is evaluated
getState(c, t) ==
    LET sb == shouldBlock(c, t)
    IN  [ret    |-> [state |-> c.state, consecutiveFailures |-> c.consecutiveFailures,
                     isBlocking |-> sb.ret],
         c      |-> sb.c,
         events |-> sb.events,
         threw  |-> sb.threw]

\* reset(): the fields are assigned; transition() is not used
reset(c) ==
    [c EXCEPT !.state = "Closed", !.consecutiveFailures = 0,
              !.openedAt = 0, !.halfOpenUntil = 0]

\* getHalfOpenRateLimit(): halfOpenProbeLimit, or null
getHalfOpenRateLimit(c) ==
    IF c.state = "HalfOpen" THEN [isNull |-> FALSE, value |-> c.halfOpenProbeLimit]
    ELSE [isNull |-> TRUE, value |-> 0]

\* -------------------------------------------- a caller of the breaker
CBOptions ==
    [failureThreshold : {0, 2}, openDurationMs : {0}, halfOpenDurationMs : {0},
     halfOpenProbeLimit : {0}, listenerThrows : {FALSE}]
CBOptionsThrowing ==
    [failureThreshold : {2}, openDurationMs : {0}, halfOpenDurationMs : {0},
     halfOpenProbeLimit : {0}, listenerThrows : {TRUE}]
CBClockSteps == {10000}

\* breakerCall is the last call made: the breaker before it, the time, what
\* it returned, the listener calls it made and whether an exception left it.
\* run counts the onFailure calls since the last onSuccess, reset or
\* construction; heard is the (from, to) pairs the listener has been given.
InitCBOf(options) ==
    /\ sys = "breaker"
    /\ now = 0
    /\ \E o \in options :
          /\ breaker = CircuitBreaker(o)
          /\ breakerCall = [op |-> "new", at |-> 0, ret |-> 0, pre |-> 0,
                            events |-> <<>>, threw |-> FALSE,
                            run |-> 0, oks |-> 0, heard |-> <<>>, direct |-> FALSE]
    /\ bucket = 0 /\ tbCall = NoCall
    /\ PipeIdle /\ AIMDIdle /\ ObjIdle

InitCB == InitCBOf(CBOptions)

Heard(events) ==
    IF breakerCall.direct THEN <<>> ELSE
    KeepLast(breakerCall.heard \o [k \in 1..Len(events) |->
                                     [from |-> events[k].from, to |-> events[k].to]],
             LogKeep)

\* the number of onSuccess() calls the breaker has received while HalfOpen
\* since it last became HalfOpen, counted up to CBMaxOks
Oks(op, post) ==
    IF breakerCall.direct THEN 0 ELSE
    IF breaker.state = "HalfOpen" /\ op = "onSuccess"
    THEN Min(breakerCall.oks + 1, CBMaxOks)
    ELSE IF breaker.state = "HalfOpen" /\ post.state = "HalfOpen"
         THEN breakerCall.oks
         ELSE 0

CB_Clock ==
    /\ sys \in {"breaker", "simcb"}
    /\ \E d \in CBClockSteps :
          /\ now + d <= CBMaxTime
          /\ now' = now + d
    /\ UNCHANGED <<sys, objVars, tbVars, pipeVars, aimdVars, cbVars>>

CB_ShouldBlock ==
    /\ sys = "breaker"
    /\ LET r == shouldBlock(breaker, now)
       IN  /\ breaker' = r.c
           /\ breakerCall' = [op |-> "shouldBlock", at |-> now, ret |-> r.ret,
                              pre |-> breaker, events |-> r.events, threw |-> r.threw,
                              run |-> breakerCall.run, oks |-> Oks("shouldBlock", r.c),
                              heard |-> Heard(r.events), direct |-> breakerCall.direct]
    /\ UNCHANGED <<sys, objVars, now, tbVars, pipeVars, aimdVars>>

CB_OnSuccess ==
    /\ sys = "breaker"
    /\ LET r == onSuccess(breaker, now)
       IN  /\ breaker' = r.c
           /\ breakerCall' = [op |-> "onSuccess", at |-> now, ret |-> 0,
                              pre |-> breaker, events |-> r.events, threw |-> r.threw,
                              run |-> 0, oks |-> Oks("onSuccess", r.c),
                              heard |-> Heard(r.events), direct |-> breakerCall.direct]
    /\ UNCHANGED <<sys, objVars, now, tbVars, pipeVars, aimdVars>>

CB_OnFailure ==
    /\ sys = "breaker"
    /\ breaker.consecutiveFailures < CBMaxFailures
    /\ LET r == onFailure(breaker, now)
       IN  /\ breaker' = r.c
           /\ breakerCall' = [op |-> "onFailure", at |-> now, ret |-> 0,
                              pre |-> breaker, events |-> r.events, threw |-> r.threw,
                              run |-> IF breakerCall.direct THEN 0
                                      ELSE Min(breakerCall.run + 1, CBMaxFailures),
                              oks |-> Oks("onFailure", r.c),
                              heard |-> Heard(r.events), direct |-> breakerCall.direct]
    /\ UNCHANGED <<sys, objVars, now, tbVars, pipeVars, aimdVars>>

CB_GetState ==
    /\ sys = "breaker"
    /\ LET r == getState(breaker, now)
       IN  /\ breaker' = r.c
           /\ breakerCall' = [op |-> "getState", at |-> now, ret |-> r.ret,
                              pre |-> breaker, events |-> r.events, threw |-> r.threw,
                              run |-> breakerCall.run, oks |-> Oks("getState", r.c),
                              heard |-> Heard(r.events), direct |-> breakerCall.direct]
    /\ UNCHANGED <<sys, objVars, now, tbVars, pipeVars, aimdVars>>

CB_Reset ==
    /\ sys = "breaker"
    /\ breaker' = reset(breaker)
    /\ breakerCall' = [op |-> "reset", at |-> now, ret |-> 0,
                       pre |-> breaker, events |-> <<>>, threw |-> FALSE,
                       run |-> 0, oks |-> 0, heard |-> Heard(<<>>),
                       direct |-> breakerCall.direct]
    /\ UNCHANGED <<sys, objVars, now, tbVars, pipeVars, aimdVars>>

CB_GetHalfOpenRateLimit ==
    /\ sys = "breaker"
    /\ breakerCall' = [op |-> "getHalfOpenRateLimit", at |-> now,
                       ret |-> getHalfOpenRateLimit(breaker),
                       pre |-> breaker, events |-> <<>>, threw |-> FALSE,
                       run |-> breakerCall.run, oks |-> breakerCall.oks,
                       heard |-> breakerCall.heard, direct |-> breakerCall.direct]
    /\ UNCHANGED <<sys, objVars, now, tbVars, pipeVars, aimdVars, breaker>>

\* transition(newState) called by the caller itself: the method is not
\* private.  direct says that the caller has done so; run, oks and heard are
\* kept for breakers that only their own calls have moved.
CB_Transition ==
    /\ sys = "breaker"
    /\ \E newState \in {"Closed", "Open", "HalfOpen"} :
          LET r == transition(breaker, newState)
          IN  /\ breaker' = r.c
              /\ breakerCall' = [op |-> "transition", at |-> now, ret |-> 0,
                                 pre |-> breaker, events |-> r.events, threw |-> r.threw,
                                 run |-> 0, oks |-> 0, heard |-> <<>>, direct |-> TRUE]
    /\ UNCHANGED <<sys, objVars, now, tbVars, pipeVars, aimdVars>>

NextCB ==
    \/ CB_Transition
    \/ CB_Clock
    \/ CB_ShouldBlock
    \/ CB_OnSuccess
    \/ CB_OnFailure
    \/ CB_GetState
    \/ CB_Reset
    \/ CB_GetHalfOpenRateLimit

SpecCB == InitCB /\ [][NextCB]_vars

\* ------------------------ a caller of the CB object of simulate.js
\* The same calls made on the breaker object of simulate.js (sys = "simcb"),
\* which has no listener, no getState() and no reset().
InitSimCB ==
    /\ sys = "simcb"
    /\ now = 0
    /\ breaker = CBInit
    /\ breakerCall = [op |-> "new", at |-> 0, ret |-> 0, pre |-> 0,
                      events |-> <<>>, threw |-> FALSE, run |-> 0, oks |-> 0,
                      heard |-> <<>>, direct |-> FALSE]
    /\ bucket = 0 /\ tbCall = NoCall
    /\ PipeIdle /\ AIMDIdle /\ ObjIdle

SimCB_ShouldBlock ==
    /\ sys = "simcb"
    /\ LET r == CB_shouldBlock(breaker, now)
       IN  /\ breaker' = r.cb
           /\ breakerCall' = [breakerCall EXCEPT !.op = "shouldBlock", !.at = now,
                                                 !.ret = r.block, !.pre = breaker,
                                                 !.oks = Oks("shouldBlock", r.cb)]
    /\ UNCHANGED <<sys, objVars, now, tbVars, pipeVars, aimdVars>>

SimCB_OnSuccess ==
    /\ sys = "simcb"
    /\ breaker' = CB_onSuccess(breaker, now)
    /\ breakerCall' = [breakerCall EXCEPT !.op = "onSuccess", !.at = now, !.ret = 0,
                                          !.pre = breaker, !.run = 0,
                                          !.oks = Oks("onSuccess", breaker')]
    /\ UNCHANGED <<sys, objVars, now, tbVars, pipeVars, aimdVars>>

SimCB_OnFailure ==
    /\ sys = "simcb"
    /\ breaker.consecutiveFailures < CBMaxFailures
    /\ breaker' = CB_onFailure(breaker, now)
    /\ breakerCall' = [breakerCall EXCEPT !.op = "onFailure", !.at = now, !.ret = 0,
                                          !.pre = breaker,
                                          !.run = Min(@ + 1, CBMaxFailures),
                                          !.oks = Oks("onFailure", breaker')]
    /\ UNCHANGED <<sys, objVars, now, tbVars, pipeVars, aimdVars>>

\* the CircuitBreaker class and the CB object, each with its caller
InitBreakers == InitCB \/ InitSimCB
NextBreakers ==
    \/ NextCB
    \/ SimCB_ShouldBlock
    \/ SimCB_OnSuccess
    \/ SimCB_OnFailure
SpecBreakers == InitBreakers /\ [][NextBreakers]_vars

\* =========================================================================
\* RetryStrategy                            (src/src/lib/RetryStrategy.js)
\* A draw of Math.random() is a ratio u = num/den with 0 <= u < 1; delays are
\* integer milliseconds.  An absent jitterType is written "".
\* =========================================================================
RSMaxAttempt == 10        \* getDelay is called with attempt numbers 1..RSMaxAttempt
RSMaxStats  == 3          \* getStats is called with 0..RSMaxStats
RSMaxExecutes == 1        \* execute is not called beyond this count
SWMaxTime   == 100        \* the SlidingWindow clock stops here (ms)
SWMaxSingles == 2         \* record() calls made one by one
SWBurst     == 100        \* record() calls made by a caller's loop

\* Math.pow(b, n) for integers b and n >= 0
RECURSIVE Pow(_, _)
Pow(b, n) == IF n <= 0 THEN 1 ELSE b * Pow(b, n - 1)

\* Math.floor(u * x) for a draw u
FloorMul(u, x) == (u.num * x) \div u.den

\* constructor(options)
RetryStrategy(o) ==
    [baseDelayMs     |-> OrDefault(o.baseDelayMs, 1000),
     maxDelayMs      |-> OrDefault(o.maxDelayMs, 300000),
     exponentialBase |-> OrDefault(o.exponentialBase, 2),
     jitterMs        |-> OrDefault(o.jitterMs, 1000),
     jitterType      |-> IF o.jitterType = "" THEN "random" ELSE o.jitterType,
     maxAttempts     |-> OrDefault(o.maxAttempts, 8),
     lastDelay       |-> 0]

\* getJitter() with the draw u
getJitter(rs, u) == FloorMul(u, rs.jitterMs)

\* getDelay(attemptNumber, retryAfterMs) with the draw u (each path of it
\* makes one draw); retryAfterMs = 0 stands for null.  lastDelay keeps the
\* whole milliseconds of the unrounded delay.
\* getDelay whose result is not capped at maxDelayMs
getDelay_Uncapped(rs, attemptNumber, retryAfterMs, u) ==
    IF retryAfterMs > 0
    THEN [ret |-> retryAfterMs + getJitter(rs, u), rs |-> rs]
    ELSE LET exponentialDelay ==
                 Min(rs.baseDelayMs * Pow(rs.exponentialBase, attemptNumber - 1),
                     rs.maxDelayMs)
             minDelay == rs.baseDelayMs
             maxDelay == Min(exponentialDelay * 3, rs.maxDelayMs)
             finalDelay ==
                 CASE rs.jitterType = "full" -> FloorMul(u, exponentialDelay)
                   [] rs.jitterType = "decorrelated"
                        -> FloorMul(u, maxDelay - minDelay) + minDelay
                   [] OTHER -> exponentialDelay + getJitter(rs, u)
         IN  [ret |-> finalDelay,
              rs  |-> IF rs.jitterType = "decorrelated"
                      THEN [rs EXCEPT !.lastDelay = finalDelay] ELSE rs]

getDelay(rs, attemptNumber, retryAfterMs, u) ==
    IF retryAfterMs > 0
    THEN [ret |-> retryAfterMs + getJitter(rs, u), rs |-> rs]
    ELSE LET exponentialDelay ==
                 Min(rs.baseDelayMs * Pow(rs.exponentialBase, attemptNumber - 1),
                     rs.maxDelayMs)
             minDelay == rs.baseDelayMs
             maxDelay == Min(exponentialDelay * 3, rs.maxDelayMs)
             finalDelay ==
                 CASE rs.jitterType = "full" -> FloorMul(u, exponentialDelay)
                   [] rs.jitterType = "decorrelated"
                        -> FloorMul(u, maxDelay - minDelay) + minDelay
                   [] OTHER -> exponentialDelay + getJitter(rs, u)
         IN  [ret |-> Min(finalDelay, rs.maxDelayMs),
              rs  |-> IF rs.jitterType = "decorrelated"
                      THEN [rs EXCEPT !.lastDelay = finalDelay] ELSE rs]

\* shouldRetry(attemptNumber, error): error is what fn threw, status 0 when
\* it carries none
shouldRetry(rs, attemptNumber, error) ==
    IF attemptNumber >= rs.maxAttempts THEN FALSE
    ELSE IF error.status >= 400 /\ error.status < 500 /\ error.status # 429 THEN FALSE
    ELSE TRUE

\* fn(attempt) of a caller of execute: it returns (ok) or throws an error
\* with the status and retryAfterMs of the entry
fnCall(fn, attempt) == IF attempt <= Len(fn.pre) THEN fn.pre[attempt] ELSE fn.rest

\* execute(fn), one call of it.  A call runs without interruption up to its
\* first await and from one await to the next; in between anything else may
\* run.  A call in flight is a record: pc is "fn" while the promise of
\* fn.call(context, attempt) is awaited and "sleep" while the timer of
\* sleep(delayMs) is; invoked counts the calls of fn, slept adds up the
\* delays, pre is the strategy and start the time at which execute was called.
ExecuteCall(rs, fn, t) ==
    [fn |-> fn, attempt |-> 0, pc |-> "new", wakeAt |-> 0, invoked |-> 0,
     slept |-> 0, pre |-> rs, start |-> t]

\* the head of the for loop at the turn `attempt`: fn is called, or the loop
\* is over and execute returns
execute_turn(rs, call, attempt) ==
    IF attempt > rs.maxAttempts
    THEN [done |-> TRUE, rs |-> rs, call |-> call,
          ret |-> [success |-> FALSE, attempts |-> rs.maxAttempts, lastOk |-> FALSE]]
    ELSE [done |-> FALSE, rs |-> rs, ret |-> 0,
          call |-> [call EXCEPT !.attempt = attempt, !.pc = "fn", !.invoked = @ + 1]]

\* the promise of fn has settled at time t: execute returns, or breaks out of
\* the loop and returns, or calls getDelay (with the draw u) and sleep
execute_settled(rs, call, t, u) ==
    LET r == fnCall(call.fn, call.attempt)
    IN  IF r.ok
        THEN [done |-> TRUE, rs |-> rs, call |-> call,
              ret |-> [success |-> TRUE, attempts |-> call.attempt, lastOk |-> TRUE]]
        ELSE IF ~shouldRetry(rs, call.attempt, r)
        THEN [done |-> TRUE, rs |-> rs, call |-> call,
              ret |-> [success |-> FALSE, attempts |-> rs.maxAttempts, lastOk |-> FALSE]]
        ELSE LET d == getDelay(rs, call.attempt, r.retryAfterMs, u)
             IN  [done |-> FALSE, rs |-> d.rs, ret |-> 0,
                  call |-> [call EXCEPT !.pc = "sleep", !.wakeAt = t + d.ret,
                                        !.slept = @ + d.ret]]

\* the timer of sleep has fired: the next turn of the loop
execute_woken(rs, call) == execute_turn(rs, call, call.attempt + 1)

\* getStats(attemptNumber): getDelay(1), ..., getDelay(attemptNumber) with the
\* draws us[1], ..., us[attemptNumber]; a quotient is kept as num/den
RECURSIVE getStatsFrom(_, _, _, _, _)
getStatsFrom(rs, i, attemptNumber, us, delays) ==
    IF i > attemptNumber THEN [rs |-> rs, delays |-> delays]
    ELSE LET d == getDelay(rs, i, 0, us[i])
         IN  getStatsFrom(d.rs, i + 1, attemptNumber, us, Append(delays, d.ret))

RECURSIVE SeqSum(_)
SeqSum(q) == IF q = <<>> THEN 0 ELSE Head(q) + SeqSum(Tail(q))

getStats(rs, attemptNumber, us) ==
    LET l == getStatsFrom(rs, 1, attemptNumber, us, <<>>)
        totalDelay == SeqSum(l.delays)
    IN  [rs  |-> l.rs,
         ret |-> [attempts          |-> attemptNumber,
                  delays            |-> l.delays,
                  totalDelayMs      |-> totalDelay,
                  totalDelaySeconds |-> [num |-> totalDelay, den |-> 1000],
                  averageDelayMs    |-> [num |-> totalDelay, den |-> attemptNumber]]]

\* reset()
RS_reset(rs) == [rs EXCEPT !.lastDelay = 0]

\* ----------------------------------------------- a caller of the strategy
RSOptions ==
    [baseDelayMs : {0, 100}, maxDelayMs : {0, 100, 101, 3000}, exponentialBase : {0},
     jitterMs : {0}, jitterType : {"", "full", "decorrelated"}, maxAttempts : {0, 3}]
RSDraws == { [num |-> 0, den |-> 1], [num |-> 1, den |-> 2], [num |-> 999, den |-> 1000] }
RSRetryAfters == {0, 1500}
RSErrors == {R429, R503, R404, RThrow}
RSFns ==
    { [pre |-> <<>>,           rest |-> R200],
      [pre |-> <<R503, R429>>, rest |-> R200],
      [pre |-> <<R503>>,       rest |-> R404],
      [pre |-> <<>>,           rest |-> R404],
      [pre |-> <<>>,           rest |-> RThrow] }

InitRS ==
    /\ sys = "retry"
    /\ inflight = <<>>
    /\ now = 0
    /\ \E o \in RSOptions :
          /\ obj = RetryStrategy(o)
          /\ objCall = [op |-> "new", arg |-> o, ret |-> 0, pre |-> 0]
    /\ bucket = 0 /\ tbCall = NoCall
    /\ PipeIdle /\ AIMDIdle /\ CBIdle

RS_GetDelay ==
    /\ sys = "retry"
    /\ \E a \in 1..RSMaxAttempt, ra \in RSRetryAfters, u \in RSDraws :
          LET r == getDelay(obj, a, ra, u)
          IN  /\ obj' = r.rs
              /\ objCall' = [op |-> "getDelay",
                             arg |-> [attempt |-> a, retryAfterMs |-> ra, u |-> u],
                             ret |-> r.ret, pre |-> obj]
    /\ UNCHANGED <<sys, now, inflight, tbVars, pipeVars, aimdVars, cbVars>>

RS_ShouldRetry ==
    /\ sys = "retry"
    /\ \E a \in 1..RSMaxAttempt, e \in RSErrors :
          objCall' = [op |-> "shouldRetry", arg |-> [attempt |-> a, error |-> e],
                      ret |-> shouldRetry(obj, a, e), pre |-> obj]
    /\ UNCHANGED <<sys, now, tbVars, pipeVars, aimdVars, cbVars, obj, inflight>>

RS_GetStats ==
    /\ sys = "retry"
    /\ \E n \in 0..RSMaxStats, u \in RSDraws :
          LET us == [i \in 1..n |-> u]
              r  == getStats(obj, n, us)
          IN  /\ obj' = r.rs
              /\ objCall' = [op |-> "getStats", arg |-> [attemptNumber |-> n, us |-> us],
                             ret |-> r.ret, pre |-> obj]
    /\ UNCHANGED <<sys, now, inflight, tbVars, pipeVars, aimdVars, cbVars>>

RS_Reset ==
    /\ sys = "retry"
    /\ obj' = RS_reset(obj)
    /\ objCall' = [op |-> "reset", arg |-> 0, ret |-> 0, pre |-> obj]
    /\ UNCHANGED <<sys, now, inflight, tbVars, pipeVars, aimdVars, cbVars>>

NextRS ==
    \/ RS_GetDelay
    \/ RS_ShouldRetry
    \/ RS_GetStats
    \/ RS_Reset

\* ------------------------------------------------- a caller of execute
\* A caller of execute(fn) (sys = "execute"): the calls in flight are in
\* inflight, and between their steps the caller may call getDelay and reset
\* or start another execute.  objCall is the last call made or the last
\* execute that returned (op = "execute"); n counts the execute calls made.
RSExecOptions ==
    [baseDelayMs : {100}, maxDelayMs : {3000}, exponentialBase : {0},
     jitterMs : {0}, jitterType : {"", "decorrelated"}, maxAttempts : {3}]
RSExecDraws == { [num |-> 1, den |-> 2] }
RSExecAttempts == {1, 2}

InitExec ==
    /\ sys = "execute"
    /\ now = 0
    /\ inflight = <<>>
    /\ \E o \in RSExecOptions :
          /\ obj = RetryStrategy(o)
          /\ objCall = [op |-> "new", arg |-> o, ret |-> 0, pre |-> 0, n |-> 0]
    /\ bucket = 0 /\ tbCall = NoCall
    /\ PipeIdle /\ AIMDIdle /\ CBIdle

WithoutCall(k) == [j \in 1..(Len(inflight) - 1) |-> IF j < k THEN inflight[j]
                                                    ELSE inflight[j + 1]]

\* what execute returns, with what happened
ExecuteReturned(r, n) ==
    [op  |-> "execute", arg |-> [fn |-> r.call.fn],
     ret |-> [success |-> r.ret.success, attempts |-> r.ret.attempts,
              invoked |-> r.call.invoked, lastOk |-> r.ret.lastOk,
              slept |-> r.call.slept, start |-> r.call.start, at |-> now],
     pre |-> r.call.pre, n |-> n]

EX_Execute ==
    /\ sys = "execute"
    /\ objCall.n < RSMaxExecutes
    /\ \E fn \in RSFns :
          LET r == execute_turn(obj, ExecuteCall(obj, fn, now), 1)
          IN  /\ obj' = r.rs
              /\ IF r.done
                 THEN /\ inflight' = inflight
                      /\ objCall' = ExecuteReturned(r, objCall.n + 1)
                 ELSE /\ inflight' = Append(inflight, r.call)
                      /\ objCall' = [op |-> "executeCalled", arg |-> [fn |-> fn], ret |-> 0,
                                     pre |-> obj, n |-> objCall.n + 1]
    /\ UNCHANGED <<sys, now, tbVars, pipeVars, aimdVars, cbVars>>

\* a step of the call inflight[k] whose outcome is r
EX_Step(k, r) ==
    /\ obj' = r.rs
    /\ IF r.done
       THEN /\ inflight' = WithoutCall(k)
            /\ objCall' = ExecuteReturned(r, objCall.n)
       ELSE /\ inflight' = [inflight EXCEPT ![k] = r.call]
            /\ objCall' = objCall

EX_Settled ==
    /\ sys = "execute"
    /\ \E k \in 1..Len(inflight), u \in RSExecDraws :
          /\ inflight[k].pc = "fn"
          /\ EX_Step(k, execute_settled(obj, inflight[k], now, u))
    /\ UNCHANGED <<sys, now, tbVars, pipeVars, aimdVars, cbVars>>

EX_Woken ==
    /\ sys = "execute"
    /\ \E k \in 1..Len(inflight) :
          /\ inflight[k].pc = "sleep" /\ inflight[k].wakeAt <= now
          /\ EX_Step(k, execute_woken(obj, inflight[k]))
    /\ UNCHANGED <<sys, now, tbVars, pipeVars, aimdVars, cbVars>>

\* the clock moves to the next timer
EXTimers == {inflight[k].wakeAt : k \in {j \in 1..Len(inflight) : inflight[j].pc = "sleep"}}

EX_Clock ==
    /\ sys = "execute"
    /\ EXTimers # {}
    /\ \A t \in EXTimers : t > now
    /\ \E t \in EXTimers :
          /\ \A u \in EXTimers : t <= u
          /\ now' = t
    /\ UNCHANGED <<sys, objVars, tbVars, pipeVars, aimdVars, cbVars>>

EX_GetDelay ==
    /\ sys = "execute"
    /\ \E a \in RSExecAttempts, u \in RSExecDraws :
          LET r == getDelay(obj, a, 0, u)
          IN  /\ obj' = r.rs
              /\ objCall' = [op |-> "getDelay",
                             arg |-> [attempt |-> a, retryAfterMs |-> 0, u |-> u],
                             ret |-> r.ret, pre |-> obj, n |-> objCall.n]
    /\ UNCHANGED <<sys, now, inflight, tbVars, pipeVars, aimdVars, cbVars>>

EX_Reset ==
    /\ sys = "execute"
    /\ obj' = RS_reset(obj)
    /\ objCall' = [op |-> "reset", arg |-> 0, ret |-> 0, pre |-> obj, n |-> objCall.n]
    /\ UNCHANGED <<sys, now, inflight, tbVars, pipeVars, aimdVars, cbVars>>

NextExec ==
    \/ EX_Execute
    \/ EX_Settled
    \/ EX_Woken
    \/ EX_Clock
    \/ EX_GetDelay
    \/ EX_Reset

InitRetry == InitRS \/ InitExec
NextRetry == NextRS \/ NextExec
SpecRS == InitRetry /\ [][NextRetry]_vars

\* =========================================================================
\* SlidingWindow                                       (src/src/lib/index.js)
\* =========================================================================
\* new SlidingWindow(options)
SlidingWindow(o) ==
    [windowMs |-> OrDefault(o.windowMs, 30000), dataPoints |-> <<>>,
     totalCount |-> 0, successCount |-> 0]

\* cleanup() at time t: the while loop shifts the first point off as long as
\* there is one and it is older than the cutoff
RECURSIVE SW_shift(_, _)
SW_shift(q, cutoff) ==
    IF Len(q) > 0 /\ q[1].timestamp < cutoff THEN SW_shift(Tail(q), cutoff) ELSE q

SW_cleanup(w, t) == [w EXCEPT !.dataPoints = SW_shift(@, t - w.windowMs)]

\* record(latencyMs, success) at time t
SW_record(w, latencyMs, success, t) ==
    SW_cleanup([w EXCEPT !.dataPoints = Append(@, [timestamp |-> t,
                                                    latency   |-> latencyMs,
                                                    success   |-> success]),
                         !.totalCount = @ + 1,
                         !.successCount = @ + (IF success THEN 1 ELSE 0)], t)

\* getErrorRate() at time t: the ratio failures / length, and the window
\* after its cleanup
SW_getErrorRate(w, t) ==
    LET c == SW_cleanup(w, t)
        q == c.dataPoints
    IN  [ret |-> IF Len(q) = 0 THEN [num |-> 0, den |-> 1]
                 ELSE [num |-> Cardinality({k \in 1..Len(q) : ~q[k].success}),
                       den |-> Len(q)],
         w |-> c]

\* latencies[index] of dataPoints.map(p => p.latency).sort((a, b) => a - b),
\* index counted from 0 as in the code
SW_sortedAt(q, index) ==
    LET latencies == SortSeq([k \in 1..Len(q) |-> q[k].latency],
                             LAMBDA a, b : a < b)
    IN  latencies[index + 1]

\* a percentile read that returns the largest latency
SW_percentile_Max(w, p, t) ==
    LET c == SW_cleanup(w, t)
        q == c.dataPoints
    IN  [ret |-> IF Len(q) = 0 THEN 0 ELSE SW_sortedAt(q, Len(q) - 1),
         w |-> c]

\* the percentile reads: latencies[Math.floor(latencies.length * p / 100)],
\* p = 95 or 99
SW_percentile(w, p, t) ==
    LET c == SW_cleanup(w, t)
        q == c.dataPoints
    IN  [ret |-> IF Len(q) = 0 THEN 0 ELSE SW_sortedAt(q, (Len(q) * p) \div 100),
         w |-> c]

SW_getP95Latency(w, t) == SW_percentile(w, 95, t)
SW_getP99Latency(w, t) == SW_percentile(w, 99, t)

\* getRequestCount() at time t
SW_getRequestCount(w, t) ==
    LET c == SW_cleanup(w, t) IN [ret |-> Len(c.dataPoints), w |-> c]

\* getSuccessRate() at time t: 1 - getErrorRate(), a quotient kept as num/den
SW_getSuccessRate(w, t) ==
    LET e == SW_getErrorRate(w, t)
    IN  [ret |-> [num |-> e.ret.den - e.ret.num, den |-> e.ret.den], w |-> e.w]

\* the sum of the latencies of q[1..k]
RECURSIVE SW_latencySum(_, _)
SW_latencySum(q, k) == IF k = 0 THEN 0 ELSE q[k].latency + SW_latencySum(q, k - 1)

\* getAverageLatency() at time t
SW_getAverageLatency(w, t) ==
    LET c == SW_cleanup(w, t)
        q == c.dataPoints
    IN  [ret |-> IF Len(q) = 0 THEN [num |-> 0, den |-> 1]
                 ELSE [num |-> SW_latencySum(q, Len(q)), den |-> Len(q)],
         w |-> c]

\* getMedianLatency() at time t
SW_getMedianLatency(w, t) ==
    LET c   == SW_cleanup(w, t)
        q   == c.dataPoints
        mid == Len(q) \div 2
    IN  [ret |-> IF Len(q) = 0 THEN [num |-> 0, den |-> 1]
                 ELSE IF Len(q) % 2 = 0
                 THEN [num |-> SW_sortedAt(q, mid - 1) + SW_sortedAt(q, mid), den |-> 2]
                 ELSE [num |-> SW_sortedAt(q, mid), den |-> 1],
         w |-> c]

\* getThroughput() at time t: length / ((t - oldest timestamp) / 1000)
SW_getThroughput(w, t) ==
    LET c == SW_cleanup(w, t)
        q == c.dataPoints
    IN  [ret |-> IF Len(q) = 0 \/ t - q[1].timestamp <= 0 THEN [num |-> 0, den |-> 1]
                 ELSE [num |-> Len(q) * 1000, den |-> t - q[1].timestamp],
         w |-> c]

\* getMetrics() at time t: cleanup(), then every read in turn
SW_getMetrics(w, t) ==
    LET c  == SW_cleanup(w, t)
        rc == SW_getRequestCount(c, t)
        er == SW_getErrorRate(rc.w, t)
        sr == SW_getSuccessRate(er.w, t)
        p5 == SW_getP95Latency(sr.w, t)
        p9 == SW_getP99Latency(p5.w, t)
        av == SW_getAverageLatency(p9.w, t)
        md == SW_getMedianLatency(av.w, t)
        th == SW_getThroughput(md.w, t)
    IN  [ret |-> [requestCount |-> rc.ret, errorRate |-> er.ret, successRate |-> sr.ret,
                  p95Latency |-> p5.ret, p99Latency |-> p9.ret, avgLatency |-> av.ret,
                  medianLatency |-> md.ret, throughput |-> th.ret,
                  totalCount |-> th.w.totalCount, totalSuccess |-> th.w.successCount],
         w |-> th.w]

\* reset()
SW_reset(w) == [w EXCEPT !.dataPoints = <<>>, !.totalCount = 0, !.successCount = 0]

\* ------------------------------------------------- a caller of the window
SWOptions   == [windowMs : {0, 50}]
SWSteps     == {50}
SWLatencies == {50}

\* for (i = 1; i <= n; i++) w.record(i, i % 2 === 0), all at time t: the
\* n pushes, the counters, and the cleanup (every record() of the loop makes
\* the same one, the time being the same)
SW_loopPoints(n, t) ==
    [i \in 1..n |-> [timestamp |-> t, latency |-> i, success |-> (i % 2 = 0)]]

SW_recordLoop(w, n, t) ==
    SW_cleanup([w EXCEPT !.dataPoints = @ \o SW_loopPoints(n, t),
                         !.totalCount = @ + n,
                         !.successCount = @ + (n \div 2)], t)

\* objCall of this caller: the last call (op, arg, ret), the window before it
\* (pre), its time (at), every point recorded since the construction (log)
\* and how many of them were recorded before the last reset() (since)
InitSW ==
    /\ sys = "window"
    /\ inflight = <<>>
    /\ now = 0
    /\ \E o \in SWOptions :
          /\ obj = SlidingWindow(o)
          /\ objCall = [op |-> "new", arg |-> o, ret |-> 0, pre |-> 0, at |-> 0,
                        log |-> <<>>, since |-> 0]
    /\ bucket = 0 /\ tbCall = NoCall
    /\ PipeIdle /\ AIMDIdle /\ CBIdle

SWRest == <<sys, tbVars, pipeVars, aimdVars, cbVars, inflight>>

SW_Clock ==
    /\ sys = "window"
    /\ \E d \in SWSteps : now + d <= SWMaxTime /\ now' = now + d
    /\ UNCHANGED <<SWRest, obj, objCall>>

SW_Record ==
    /\ sys = "window"
    /\ Len(objCall.log) % SWBurst < SWMaxSingles
    /\ \E ms \in SWLatencies, ok \in BOOLEAN :
          /\ obj' = SW_record(obj, ms, ok, now)
          /\ objCall' = [op |-> "record", arg |-> [latency |-> ms, success |-> ok],
                         ret |-> 0, pre |-> obj, at |-> now,
                         log |-> Append(objCall.log, [timestamp |-> now, latency |-> ms,
                                                      success |-> ok]),
                         since |-> objCall.since]
    /\ UNCHANGED <<SWRest, now>>

SW_RecordLoop ==
    /\ sys = "window"
    /\ Len(objCall.log) < SWBurst
    /\ obj' = SW_recordLoop(obj, SWBurst, now)
    /\ objCall' = [op |-> "recordLoop", arg |-> SWBurst, ret |-> 0, pre |-> obj,
                   at |-> now, log |-> objCall.log \o SW_loopPoints(SWBurst, now),
                   since |-> objCall.since]
    /\ UNCHANGED <<SWRest, now>>

SW_Read(op, r) ==
    /\ obj' = r.w
    /\ objCall' = [op |-> op, arg |-> 0, ret |-> r.ret, pre |-> obj, at |-> now,
                   log |-> objCall.log, since |-> objCall.since]

SW_GetErrorRate ==
    /\ sys = "window"
    /\ SW_Read("getErrorRate", SW_getErrorRate(obj, now))
    /\ UNCHANGED <<SWRest, now>>

SW_GetP95Latency ==
    /\ sys = "window"
    /\ SW_Read("getP95Latency", SW_getP95Latency(obj, now))
    /\ UNCHANGED <<SWRest, now>>

SW_GetP99Latency ==
    /\ sys = "window"
    /\ SW_Read("getP99Latency", SW_getP99Latency(obj, now))
    /\ UNCHANGED <<SWRest, now>>

SW_GetRequestCount ==
    /\ sys = "window"
    /\ SW_Read("getRequestCount", SW_getRequestCount(obj, now))
    /\ UNCHANGED <<SWRest, now>>

SW_GetSuccessRate ==
    /\ sys = "window"
    /\ SW_Read("getSuccessRate", SW_getSuccessRate(obj, now))
    /\ UNCHANGED <<SWRest, now>>

SW_GetAverageLatency ==
    /\ sys = "window"
    /\ SW_Read("getAverageLatency", SW_getAverageLatency(obj, now))
    /\ UNCHANGED <<SWRest, now>>

SW_GetMedianLatency ==
    /\ sys = "window"
    /\ SW_Read("getMedianLatency", SW_getMedianLatency(obj, now))
    /\ UNCHANGED <<SWRest, now>>

SW_GetThroughput ==
    /\ sys = "window"
    /\ SW_Read("getThroughput", SW_getThroughput(obj, now))
    /\ UNCHANGED <<SWRest, now>>

SW_GetMetrics ==
    /\ sys = "window"
    /\ SW_Read("getMetrics", SW_getMetrics(obj, now))
    /\ UNCHANGED <<SWRest, now>>

SW_Cleanup ==
    /\ sys = "window"
    /\ SW_Read("cleanup", [ret |-> 0, w |-> SW_cleanup(obj, now)])
    /\ UNCHANGED <<SWRest, now>>

SW_Reset ==
    /\ sys = "window"
    /\ obj' = SW_reset(obj)
    /\ objCall' = [op |-> "reset", arg |-> 0, ret |-> 0, pre |-> obj, at |-> now,
                   log |-> objCall.log, since |-> Len(objCall.log)]
    /\ UNCHANGED <<SWRest, now>>

NextSW ==
    \/ SW_Clock
    \/ SW_Record
    \/ SW_RecordLoop
    \/ SW_GetErrorRate
    \/ SW_GetP95Latency
    \/ SW_GetP99Latency
    \/ SW_GetRequestCount
    \/ SW_GetSuccessRate
    \/ SW_GetAverageLatency
    \/ SW_GetMedianLatency
    \/ SW_GetThroughput
    \/ SW_GetMetrics
    \/ SW_Cleanup
    \/ SW_Reset

SpecSW == InitSW /\ [][NextSW]_vars

\* =========================================================================
\* The store used directly by a caller (sys = "store"): dbFetchBatch with
\* any limit on a store in any condition
\* =========================================================================
STMaxTime == 500          \* the store's clock stops here (ms)

Statuses == {"PENDING", "SENDING", "FAILED", "SENT", "DLQ"}

InitStore ==
    /\ sys = "store"
    /\ inflight = <<>>
    /\ now = 0
    /\ obj \in [Items -> [status : Statuses, attempt_count : {1},
                          next_attempt_at : {0, STMaxTime}]]
    /\ objCall = [op |-> "none", arg |-> 0, ret |-> <<>>, pre |-> 0]
    /\ bucket = 0 /\ tbCall = NoCall
    /\ PipeIdle /\ AIMDIdle /\ CBIdle

ST_Clock ==
    /\ sys = "store"
    /\ now < STMaxTime /\ now' = STMaxTime
    /\ UNCHANGED <<sys, objVars, tbVars, pipeVars, aimdVars, cbVars>>

ST_FetchBatch ==
    /\ sys = "store"
    /\ \E limit \in 0..NItems :
          LET f == dbFetchBatch(obj, limit, now)
          IN  /\ obj' = f.db
              /\ objCall' = [op |-> "dbFetchBatch", arg |-> [limit |-> limit, t |-> now],
                             ret |-> f.rows, pre |-> obj]
    /\ UNCHANGED <<sys, now, inflight, tbVars, pipeVars, aimdVars, cbVars>>

NextStore == ST_Clock \/ ST_FetchBatch

\* the pipeline, and the store under any dbFetchBatch
InitClaims == InitPipe \/ InitStore
NextClaims == NextPipe \/ NextStore
SpecClaims == InitClaims /\ [][NextClaims]_vars

\* =========================================================================
\* Tasks waiting in take() of one TokenBucket (sys = "waiters"): every task
\* polls every TAKE_SLEEP_MS from the time it called take(); polls due at the
\* same time run in any order.  The clock moves forward.
\* =========================================================================
NWaiters  == 3            \* tasks that call take()
TKMaxTime == 6000         \* the waiters' clock stops here (ms)

Waiters == 1..NWaiters
TKRates  == {1, 2}
TKStarts == {0, 5}

\* obj: per task, where it is in take() and when its sleep ends;
\* objCall: the last turn of a take() loop (who, at, the bucket before it,
\* whether it returned) and the number of take() calls that have returned
InitTake ==
    /\ sys = "waiters"
    /\ inflight = <<>>
    /\ now = 0
    /\ \E r \in TKRates : bucket = TokenBucket(r, 0)
    /\ tbCall = NoCall
    /\ obj \in [Waiters -> [pc : {"sleep"}, wakeAt : TKStarts]]
    /\ objCall = [op |-> "none", who |-> 0, at |-> 0, pre |-> 0, ok |-> FALSE,
                  returned |-> 0]
    /\ PipeIdle /\ AIMDIdle /\ CBIdle

\* one turn of the loop of take() by task w: refill, then take the token and
\* return, or sleep(10)
TK_Turn(w) ==
    /\ sys = "waiters"
    /\ obj[w].pc = "sleep" /\ obj[w].wakeAt <= now
    /\ \E e \in Roundings(bucket, now) :
          LET r == tryTake(bucket, now, e)
          IN  /\ bucket' = r.b
              /\ obj' = [obj EXCEPT ![w] = IF r.ok THEN [pc |-> "returned", wakeAt |-> now]
                                           ELSE [pc |-> "sleep",
                                                 wakeAt |-> now + TAKE_SLEEP_MS]]
              /\ objCall' = [op |-> "take", who |-> w, at |-> now, pre |-> bucket,
                             ok |-> r.ok,
                             returned |-> objCall.returned + (IF r.ok THEN 1 ELSE 0)]
    /\ UNCHANGED <<sys, now, inflight, tbCall, pipeVars, aimdVars, cbVars>>

TKTimers == {obj[w].wakeAt : w \in {v \in Waiters : obj[v].pc = "sleep"}}

\* no turn is due: the clock moves to the next one
TK_Advance ==
    /\ sys = "waiters"
    /\ TKTimers # {}
    /\ \A t \in TKTimers : t > now
    /\ \E t \in TKTimers :
          /\ \A u \in TKTimers : t <= u
          /\ t <= TKMaxTime
          /\ now' = t
    /\ UNCHANGED <<sys, objVars, tbVars, pipeVars, aimdVars, cbVars>>

NextTake == (\E w \in Waiters : TK_Turn(w)) \/ TK_Advance

\* timers fire and the event loop runs what is due
SpecTake == InitTake /\ [][NextTake]_vars /\ WF_vars(NextTake)

\* =========================================================================
\* Specifications over more than one component
\* =========================================================================
\* the pipeline under fair scheduling: a step that can be taken (a task that
\* is ready, a timer that is due) is eventually taken
SpecPipeLive == InitPipe /\ [][NextPipe]_vars /\ WF_vars(NextPipe)

\* both controller loops (simulate.js and the demo) and the AIMDController
InitCtl == InitPipeOf({"simulate", "demo"}) \/ InitAIMD
NextCtl == NextPipe \/ NextAIMD
SpecCtl == InitCtl /\ [][NextCtl]_vars

\* the pipeline of simulate.js in scenario S3: the transport answers 404 for
\* some ids and as fakeChatServerAPI does for the rest
InitReject == InitPipeWith({"simulate"}, Plans \cup PlansReject)
SpecReject == InitReject /\ [][NextPipe]_vars

\* the pipeline against a busy server, and the RetryStrategy
InitBusy == InitPipeWith({"simulate"}, PlansBusy) \/ InitRS
NextBusy == NextPipe \/ NextRS
SpecBusy == InitBusy /\ [][NextBusy]_vars

\* the window functions of both pipelines, and the SlidingWindow class
InitWindows == InitPipeOf({"simulate", "demo"}) \/ InitSW
NextWindows == NextPipe \/ NextSW
SpecWindows == InitWindows /\ [][NextWindows]_vars

\* the breaker and the controller, each given a listener that throws
InitListen == InitCBOf(CBOptionsThrowing) \/ InitAIMDOf(AIMDOptionsThrowing)
NextListen == NextCB \/ NextAIMD
SpecListen == InitListen /\ [][NextListen]_vars

\* =========================================================================
\* Properties
\* =========================================================================

\* C1 (rate safety): for any interval of length D >= 1/rate, the number of
\* transport invocations started in it, in-flight retries included, is at most
\* ceil(D * rate + capacity).  Stated over the last LogKeep invocations: any
\* run of them from the a-th to the b-th lies in an interval of length
\* max(t_b - t_a, 1/rate), with rate and capacity the largest the bucket had
\* at those invocations.
RateSafety ==
    IsPipe =>
      \A a, b \in 1..Len(h.sendLog) :
         a < b =>
           LET rate == Max(h.sendLog[a].rate, h.sendLog[b].rate)
               cap  == Max(h.sendLog[a].capacity, h.sendLog[b].capacity)
               D    == h.sendLog[b].t - h.sendLog[a].t
           IN  (\A k \in a..b : h.sendLog[k].rate <= rate /\ h.sendLog[k].capacity <= cap)
               => b - a + 1 <= CeilDiv(Max(D * rate, 1000) + cap * 1000, 1000)

\* C2 (breaker monotonicity): no transport invocation starts while the
\* breaker is Open and now - openedAt < OPEN_MS.
BreakerMonotonicity == IsPipe => ~h.openSend

\* C3 (at most RETRY_MAX): the transport invocations made for an item over
\* its whole life, in-flight and after rescheduling, never exceed RETRY_MAX.
AtMostRetryMax == IsPipe => \A i \in Items : calls[i] <= RETRY_MAX

\* C4 (eventual finalization): under fair scheduling every seeded item
\* eventually has status SENT or DLQ and main then exits (process.exit(0)).
EventualFinalization == <>(mainPc.pc = "exit0" /\ AllTerminal(DB))

C4_SentAndDeadLettered ==
    /\ mainPc.pc = "exit0"
    /\ \E i, j \in Items : /\ DB[i].status = "SENT" /\ calls[i] > 1
                           /\ DB[j].status = "DLQ" /\ h.failRet[j] = RETRY_MAX

\* C5 (exactly-once finalization): each return of sendToChatServer with ok
\* is followed by one dbMarkSent and nothing else, each return with !ok by
\* one dbScheduleRetry or dbMoveToDLQ and no dbMarkSent, and an item whose
\* task has completed does not have status SENDING.
ExactlyOnceFinalization ==
    IsPipe =>
      \A i \in Items :
         /\ h.markSent[i] = h.okRet[i]
         /\ h.schedRetry[i] + h.moveToDLQ[i] = h.failRet[i]
         /\ (h.okRet[i] > 0 <=> DB[i].status = "SENT")
         /\ (task[i].pc = "none" => DB[i].status # "SENDING")

C5_SentAfterRetries ==
    \E i \in Items : /\ h.okRet[i] = 1 /\ h.markSent[i] = 1
                     /\ calls[i] > 1
                     /\ task[i].pc = "none" /\ DB[i].status = "SENT"

\* C6 (permanent 4xx): after a 4xx other than 429 the item gets no further
\* transport invocation, and once its task has completed it is in DLQ; an
\* item whose send succeeded is SENT.
Permanent4xx ==
    IsPipe =>
      \A i \in Items :
         /\ h.perm[i] > 0 => /\ calls[i] = h.perm[i]
                             /\ (task[i].pc = "none" => DB[i].status = "DLQ")
         /\ h.okRet[i] > 0 => DB[i].status = "SENT"

\* C7 (token bounds): after any sequence of TokenBucket operations at any
\* clock readings 0 <= tokens <= capacity, and setRate to a strictly smaller
\* rate leaves tokens = min(previous tokens, rate).
TokenBounds ==
    sys = "bucket" =>
      /\ 0 <= bucket.tokens /\ bucket.tokens <= bucket.capacity * 1000
      /\ (tbCall.op = "setRate" /\ tbCall.arg < tbCall.pre.rate
            => bucket.tokens = Min(tbCall.pre.tokens, tbCall.arg * 1000))

\* C8 (positive rate): the bucket's rate is at least 1 and capacity = rate,
\* whoever called setRate.
PositiveRate ==
    sys # "aimd" => bucket.rate >= 1 /\ bucket.capacity = bucket.rate

\* C9 (warmup pinning): until the controller's warmup sleep is over the
\* bucket's rate is WARMUP_RPS; update() and getCurrentRate() called with
\* now - startTime < warmupDuration return warmupRate, whatever the signals
\* and whatever setRate() has stored.
WarmupPinning ==
    /\ IsPipe /\ (ctl.pc = "warmup" \/ now < WarmupMs(sys))
         => bucket.rate = WARMUP_RPS /\ ctl.pc = "warmup"
    /\ sys = "aimd" /\ aimdCall.op \in {"update", "getCurrentRate"}
                    /\ aimdCall.at - aimdCall.pre.startTime < aimdCall.pre.warmupDuration
         => /\ aimdCall.ret = aimdCall.pre.warmupRate
            /\ aimd = aimdCall.pre

C9_UpdateInWarmup ==
    /\ sys = "aimd" /\ aimdCall.op = "update"
    /\ aimdCall.at > aimdCall.pre.startTime
    /\ aimdCall.at - aimdCall.pre.startTime < aimdCall.pre.warmupDuration
    /\ AIMD_bad(aimdCall.pre, aimdCall.arg.e, aimdCall.arg.p)
    /\ aimdCall.pre.currentRate # aimdCall.pre.warmupRate
    /\ aimdCall.ret = aimdCall.pre.warmupRate

\* C10 (AIMD monotonicity).  A tick is an update() that is past warmup, or a
\* run of the interval callback of a controller loop.
AIMDTick ==
    /\ sys = "aimd" /\ aimdCall.op = "update"
    /\ ~AIMD_inWarmup(aimdCall.pre, aimdCall.at)
AIMDTickBad == AIMD_bad(aimdCall.pre, aimdCall.arg.e, aimdCall.arg.p)
AIMDClassMonotone ==
    AIMDTick =>
      /\ AIMDTickBad /\ aimdCall.pre.currentRate > aimdCall.pre.minRate
           => aimd.currentRate < aimdCall.pre.currentRate
      /\ ~AIMDTickBad /\ aimdCall.pre.currentRate < aimdCall.pre.maxRate
           => aimd.currentRate > aimdCall.pre.currentRate
LoopTick == IsPipe /\ h.tick.n > 0

\* C10 as stated: a bad tick strictly decreases the rate unless it is at
\* minRate, a good tick strictly increases it unless it is at maxRate (the
\* loops have minRate 1 and no maxRate), for update() and both loops.
AIMDMonotonicity ==
    /\ AIMDClassMonotone
    /\ LoopTick =>
         /\ h.tick.bad /\ h.tick.old > 1 => h.tick.new < h.tick.old
         /\ ~h.tick.bad => h.tick.new > h.tick.old

\* C10 as the code has it: the same, except that a good tick of the demo
\* loop increases the rate only while pendingDepth() > 0 and otherwise
\* leaves it unchanged.
AIMDMonotonicityGated ==
    /\ AIMDClassMonotone
    /\ LoopTick =>
         /\ h.tick.bad /\ h.tick.old > 1 => h.tick.new < h.tick.old
         /\ ~h.tick.bad /\ (sys = "simulate" \/ h.tick.depth > 0)
              => h.tick.new > h.tick.old
         /\ ~h.tick.bad /\ sys = "demo" /\ h.tick.depth = 0
              => h.tick.new = h.tick.old

C10_DemoGoodTickNoBacklog ==
    /\ sys = "demo" /\ h.tick.n > 0
    /\ ~h.tick.bad /\ h.tick.depth = 0 /\ h.tick.new = h.tick.old

\* C11 (controller rate bounds): after construction with any options and
\* after any update(), setRate() and reset(), minRate <= currentRate <=
\* maxRate; MAX_RPS of the simulate.js loop stays within 1..100.
ControllerRateBounds ==
    /\ sys = "aimd" => /\ aimd.minRate <= aimd.currentRate
                       /\ aimd.currentRate <= aimd.maxRate
    /\ sys = "simulate" => 1 <= MAX_RPS /\ MAX_RPS <= 100

\* the state changes of the breaker's state machine
CBAllowed ==
    { <<"Closed", "Open">>, <<"Open", "HalfOpen">>,
      <<"HalfOpen", "Open">>, <<"HalfOpen", "Closed">> }
\* a call has been made on a CircuitBreaker that only its own calls have
\* moved: the caller has not called transition() itself
CBCalled == sys = "breaker" /\ breakerCall.op # "new" /\ ~breakerCall.direct

\* C12 as stated: whatever operation is called (shouldBlock, onSuccess,
\* onFailure, getState, getHalfOpenRateLimit, reset), the state stays or
\* changes Closed->Open, Open->HalfOpen, HalfOpen->Open or HalfOpen->Closed.
BreakerTransitions ==
    CBCalled =>
      \/ breaker.state = breakerCall.pre.state
      \/ <<breakerCall.pre.state, breaker.state>> \in CBAllowed

\* C12 as the code has it: the same for every operation but reset(), which
\* leaves the breaker Closed from any state, Open included.
BreakerTransitionsButReset ==
    CBCalled =>
      IF breakerCall.op = "reset"
      THEN breaker.state = "Closed"
      ELSE \/ breaker.state = breakerCall.pre.state
           \/ <<breakerCall.pre.state, breaker.state>> \in CBAllowed

\* all three states have been visited, and reset() is called while Open
C12_ResetWhileOpen ==
    /\ CBCalled /\ breakerCall.op = "reset"
    /\ breakerCall.pre.state = "Open" /\ breaker.state = "Closed"
    /\ breakerCall.heard = << [from |-> "Closed", to |-> "Open"],
                              [from |-> "Open", to |-> "HalfOpen"],
                              [from |-> "HalfOpen", to |-> "Open"] >>

\* the configuration of the breaker that was called
AnyCBCalled  == sys \in {"breaker", "simcb"} /\ breakerCall.op # "new"
                    /\ ~breakerCall.direct
CBThreshold  == IF sys = "breaker" THEN breaker.failureThreshold ELSE CB_FAILURES
CBOpenMs     == IF sys = "breaker" THEN breaker.openDurationMs ELSE OPEN_MS
CBHalfOpenMs == IF sys = "breaker" THEN breaker.halfOpenDurationMs ELSE HALF_OPEN_MS

\* C13 (Closed-state rule): a Closed breaker becomes Open exactly at the
\* onFailure call that is the failureThreshold-th since the last onSuccess,
\* with openedAt the time of that call; no other call opens it; onSuccess
\* sets consecutiveFailures to 0; while Closed the counter is the number of
\* failures since the last success and is below failureThreshold.
ClosedStateRule ==
    AnyCBCalled =>
      /\ breakerCall.pre.state = "Closed" /\ breakerCall.op = "onFailure"
           => IF breakerCall.run >= CBThreshold
              THEN breaker.state = "Open" /\ breaker.openedAt = breakerCall.at
              ELSE breaker.state = "Closed"
      /\ breakerCall.pre.state = "Closed" /\ breakerCall.op # "onFailure"
           => breaker.state = "Closed"
      /\ breakerCall.op = "onSuccess" => breaker.consecutiveFailures = 0
      /\ breaker.state = "Closed"
           => /\ breaker.consecutiveFailures = breakerCall.run
              /\ breaker.consecutiveFailures < CBThreshold

C13_TenthFailureOpens ==
    /\ AnyCBCalled /\ breakerCall.op = "onFailure"
    /\ CBThreshold = 10 /\ breakerCall.run = 10
    /\ breakerCall.pre.state = "Closed" /\ breakerCall.pre.consecutiveFailures = 9
    /\ breaker.state = "Open" /\ breaker.openedAt = now /\ now > 0

\* C14 (Open-state rule), as stated: on an Open breaker a shouldBlock() at a
\* time with now - openedAt < openDuration returns true and changes nothing;
\* one with now - openedAt >= openDuration returns false and leaves the
\* breaker HalfOpen with halfOpenUntil = now + halfOpenDuration and the
\* counter 0; the breaker never leaves Open before openDuration has elapsed
\* since openedAt, whatever is called.
OpenStateRule ==
    AnyCBCalled /\ breakerCall.pre.state = "Open" =>
      LET elapsed == breakerCall.at - breakerCall.pre.openedAt
      IN  /\ breakerCall.op = "shouldBlock" /\ elapsed < CBOpenMs
               => breakerCall.ret = TRUE /\ breaker = breakerCall.pre
          /\ breakerCall.op = "shouldBlock" /\ elapsed >= CBOpenMs
               => /\ breakerCall.ret = FALSE
                  /\ breaker.state = "HalfOpen"
                  /\ breaker.halfOpenUntil = breakerCall.at + CBHalfOpenMs
                  /\ breaker.consecutiveFailures = 0
          /\ breaker.state # "Open"
               => elapsed >= CBOpenMs /\ breaker.state = "HalfOpen"

\* C14 (Open-state rule), amended: the two shouldBlock() clauses as above,
\* and no call other than reset() (shouldBlock, onSuccess, onFailure,
\* getState, getHalfOpenRateLimit) takes the breaker out of Open before
\* openDuration has elapsed since openedAt; such a call leaves Open only
\* for HalfOpen.  reset() closes an Open breaker at any time.
OpenStateRuleButReset ==
    AnyCBCalled /\ breakerCall.pre.state = "Open" =>
      LET elapsed == breakerCall.at - breakerCall.pre.openedAt
      IN  /\ breakerCall.op = "shouldBlock" /\ elapsed < CBOpenMs
               => breakerCall.ret = TRUE /\ breaker = breakerCall.pre
          /\ breakerCall.op = "shouldBlock" /\ elapsed >= CBOpenMs
               => /\ breakerCall.ret = FALSE
                  /\ breaker.state = "HalfOpen"
                  /\ breaker.halfOpenUntil = breakerCall.at + CBHalfOpenMs
                  /\ breaker.consecutiveFailures = 0
          /\ breakerCall.op # "reset" /\ breaker.state # "Open"
               => elapsed >= CBOpenMs /\ breaker.state = "HalfOpen"
          /\ breakerCall.op = "reset" => breaker.state = "Closed"

C14_HalfOpenWhenOpenTimeIsOver ==
    /\ AnyCBCalled /\ breakerCall.op = "shouldBlock"
    /\ breakerCall.pre.state = "Open" /\ breakerCall.pre.consecutiveFailures > 0
    /\ breakerCall.pre.openedAt > 0
    /\ breakerCall.at = breakerCall.pre.openedAt + CBOpenMs
    /\ breakerCall.ret = FALSE /\ breaker.state = "HalfOpen"
    /\ breaker.halfOpenUntil = now + CBHalfOpenMs

\* C15 (HalfOpen-state rule): on a HalfOpen breaker shouldBlock() returns
\* false and changes nothing; any onFailure moves the breaker to Open with
\* openedAt = now; an onSuccess at a time now > halfOpenUntil moves it to
\* Closed; an onSuccess at a time now <= halfOpenUntil leaves it HalfOpen.
HalfOpenStateRule ==
    AnyCBCalled /\ breakerCall.pre.state = "HalfOpen" =>
      /\ breakerCall.op = "shouldBlock"
           => breakerCall.ret = FALSE /\ breaker = breakerCall.pre
      /\ breakerCall.op = "onFailure"
           => breaker.state = "Open" /\ breaker.openedAt = breakerCall.at
      /\ breakerCall.op = "onSuccess" /\ breakerCall.at > breakerCall.pre.halfOpenUntil
           => breaker.state = "Closed"
      /\ breakerCall.op = "onSuccess" /\ breakerCall.at <= breakerCall.pre.halfOpenUntil
           => /\ breaker.state = "HalfOpen"
              /\ breaker.halfOpenUntil = breakerCall.pre.halfOpenUntil

C15_SuccessAtEndOfWindow ==
    /\ AnyCBCalled /\ breakerCall.op = "onSuccess"
    /\ breakerCall.pre.state = "HalfOpen"
    /\ breakerCall.pre.halfOpenUntil > 0
    /\ breakerCall.at = breakerCall.pre.halfOpenUntil
    /\ breaker.state = "HalfOpen"

\* ---- the breaker cycle
Pair(a, b) == [from |-> a, to |-> b]
S4Sequence == << Pair("Closed", "Open"), Pair("Open", "HalfOpen"), Pair("HalfOpen", "Closed") >>
\* the last three listener calls
HeardLast3 ==
    SubSeq(breakerCall.heard, Max(1, Len(breakerCall.heard) - 2), Len(breakerCall.heard))
\* the last call was an onSuccess() on a HalfOpen breaker
SuccessInHalfOpen ==
    /\ AnyCBCalled /\ breakerCall.op = "onSuccess"
    /\ breakerCall.pre.state = "HalfOpen"
\* what the listener has heard ends with the opening of the breaker and its
\* passage to HalfOpen
HeardOpenThenHalfOpen ==
    /\ Len(breakerCall.heard) >= 2
    /\ breakerCall.heard[Len(breakerCall.heard)] = Pair("Open", "HalfOpen")
    /\ breakerCall.heard[Len(breakerCall.heard) - 1].to = "Open"

\* C16 (breaker cycle S4), as stated: once the breaker has opened, blocked
\* and become HalfOpen, the second success reported during the half-open
\* window (now <= halfOpenUntil) leaves it Closed, the listener having heard
\* (Closed,Open), (Open,HalfOpen), (HalfOpen,Closed).
BreakerCycle ==
    /\ SuccessInHalfOpen
    /\ breakerCall.at <= breakerCall.pre.halfOpenUntil
    /\ breakerCall.oks = 2
    => /\ breaker.state = "Closed"
       /\ HeardLast3 = S4Sequence

\* C16, as the code has it: a breaker is HalfOpen only after the listener has
\* heard (_,Open), (Open,HalfOpen); a success reported during the half-open
\* window, the first or a later one, leaves it HalfOpen and calls no listener;
\* a success reported after the window (now > halfOpenUntil) leaves it Closed
\* and the listener hears (HalfOpen,Closed) once, so that it has heard
\* (Closed,Open), (Open,HalfOpen), (HalfOpen,Closed) when the breaker had
\* opened from Closed.
BreakerCycleClosesAfterWindow ==
    /\ AnyCBCalled /\ breaker.state = "HalfOpen" => HeardOpenThenHalfOpen
    /\ AnyCBCalled /\ breaker.state = "Open"
         => /\ Len(breakerCall.heard) >= 1
            /\ breakerCall.heard[Len(breakerCall.heard)].to = "Open"
    /\ SuccessInHalfOpen =>
         IF breakerCall.at > breakerCall.pre.halfOpenUntil
         THEN /\ breaker.state = "Closed"
              /\ Len(breakerCall.events) = 1
              /\ Pair(breakerCall.events[1].from, breakerCall.events[1].to)
                   = Pair("HalfOpen", "Closed")
              /\ Len(HeardLast3) = 3
              /\ HeardLast3[1].to = "Open"
              /\ HeardLast3[2] = Pair("Open", "HalfOpen")
              /\ HeardLast3[3] = Pair("HalfOpen", "Closed")
              /\ HeardLast3[1].from = "Closed" => HeardLast3 = S4Sequence
         ELSE /\ breaker.state = "HalfOpen"
              /\ breakerCall.events = <<>>
              /\ HeardOpenThenHalfOpen

C16_ClosedByThirdSuccess ==
    /\ SuccessInHalfOpen
    /\ breakerCall.oks = 3
    /\ breakerCall.at > breakerCall.pre.halfOpenUntil
    /\ breakerCall.pre.halfOpenUntil = breakerCall.pre.openedAt + CBOpenMs + CBHalfOpenMs
    /\ breaker.state = "Closed"
    /\ HeardLast3 = S4Sequence

\* C17 (pure state read): getState(), called in any state at any time, leaves
\* state, consecutiveFailures, openedAt and halfOpenUntil as they were and
\* calls no listener; only shouldBlock(), onSuccess(), onFailure() and
\* reset() change the breaker.
GetStateIsPure ==
    AnyCBCalled =>
      /\ breakerCall.op = "getState"
           => /\ breaker.state = breakerCall.pre.state
              /\ breaker.consecutiveFailures = breakerCall.pre.consecutiveFailures
              /\ breaker.openedAt = breakerCall.pre.openedAt
              /\ breaker.halfOpenUntil = breakerCall.pre.halfOpenUntil
              /\ breakerCall.events = <<>>
      /\ breaker # breakerCall.pre
           => breakerCall.op \in {"shouldBlock", "onSuccess", "onFailure", "reset"}

\* C18 (transition observability): every call that changes the breaker's
\* state makes exactly one listener call, with (from, to) the state before
\* and after; a call that leaves the state as it was makes none.
TransitionsObserved ==
    AnyCBCalled =>
      IF breaker.state # breakerCall.pre.state
      THEN /\ Len(breakerCall.events) = 1
           /\ breakerCall.events[1].from = breakerCall.pre.state
           /\ breakerCall.events[1].to = breaker.state
      ELSE breakerCall.events = <<>>

\* C19 (listener isolation): with a listener that throws, no exception leaves
\* shouldBlock, onSuccess, onFailure or update, and the call still completes
\* its own update: openedAt is set on entering Open, halfOpenUntil and the
\* counter are reset on entering HalfOpen, and update outside warmup assigns
\* the new currentRate, marks warmup complete and returns the rate.
ListenerIsolation ==
    /\ AnyCBCalled =>
         /\ ~breakerCall.threw
         /\ breaker.state = "Open" /\ breakerCall.pre.state # "Open"
              => breaker.openedAt = breakerCall.at
         /\ breaker.state = "HalfOpen" /\ breakerCall.pre.state = "Open"
              => /\ breaker.halfOpenUntil = breakerCall.at + CBHalfOpenMs
                 /\ breaker.consecutiveFailures = 0
    /\ sys = "aimd" /\ aimdCall.op = "update" =>
         /\ ~aimdCall.threw
         /\ ~AIMD_inWarmup(aimdCall.pre, aimdCall.at)
              => /\ aimd.warmupComplete
                 /\ aimd.currentRate =
                      IF AIMD_bad(aimdCall.pre, aimdCall.arg.e, aimdCall.arg.p)
                      THEN AIMD_decrease(aimdCall.pre)
                      ELSE AIMD_increase(aimdCall.pre)
                 /\ aimdCall.ret = aimd.currentRate

\* C20 (rate-change notification): every call on the controller that changes
\* currentRate makes exactly one onRateChange call carrying the old and the
\* new value, with a reason among warmup_complete, increase, decrease and
\* forced (forced for setRate); no call with reason increase or decrease is
\* made with old = new.
RateChangeReasons == {"warmup_complete", "increase", "decrease", "forced"}
RateChangeNotified ==
    sys = "aimd" /\ aimdCall.op # "new" =>
      LET ev     == aimdCall.events
          told   == { k \in 1..Len(ev) : /\ ev[k].old = aimdCall.pre.currentRate
                                         /\ ev[k].new = aimd.currentRate }
      IN  /\ \A k \in 1..Len(ev) :
                /\ ev[k].reason \in RateChangeReasons
                /\ ev[k].reason \in {"increase", "decrease"} => ev[k].old # ev[k].new
          /\ aimd.currentRate # aimdCall.pre.currentRate
               => /\ Cardinality(told) = 1
                  /\ aimdCall.op = "setRate" => \A k \in told : ev[k].reason = "forced"

\* C21 (half-open interlock): at every moment at which the pipeline's breaker
\* is HalfOpen the bucket's rate is at most min(MAX_RPS, HALF_OPEN_PROBE_RPS):
\* from the Open -> HalfOpen transition until the breaker leaves HalfOpen the
\* bucket never refills faster than the probe rate.
HalfOpenInterlock ==
    /\ IsPipe /\ CB.state = "HalfOpen"
         => bucket.rate <= Min(MAX_RPS, HALF_OPEN_PROBE_RPS)
    /\ sys = "interval" /\ obj.CB.state = "HalfOpen"
         => bucket.rate <= Min(obj.MAX_RPS, HALF_OPEN_PROBE_RPS)

\* C22 (Retry-After is honored): after a send for an item came back 429 with
\* retryAfterMs = d, the next send for that item, in flight or after the item
\* was rescheduled, starts no sooner than d ms after that response; and
\* RetryStrategy.getDelay(attempt, d) >= d.
RetryAfterHonored ==
    /\ IsPipe => \A i \in Items :
                   task[i].pc = "sending" => task[i].start >= h.busy[i]
    /\ sys = "retry" /\ objCall.op = "getDelay" /\ objCall.arg.retryAfterMs > 0
         => objCall.ret >= objCall.arg.retryAfterMs

\* C23  Rescheduling rule.  After a worker's send for an item whose attempt
\* counter was a ended in failure at time t, with n = a + 1: if n >= RETRY_MAX
\* the item is in the DLQ; otherwise its attempt_count is n, its
\* next_attempt_at lies in [t + min(2^n, cap) s, t + min(2^n, cap) s + 1 s),
\* its status is FAILED as long as no dbFetchBatch has returned it since, and
\* the dbFetchBatch that returned it ran at next_attempt_at or later.
ReschedulingRule ==
    IsPipe =>
      \A i \in Items :
        h.lastFail[i].a >= 0 =>
          LET n  == h.lastFail[i].a + 1
              lo == h.lastFail[i].at + Min(Pow2(n), BACKOFF_CAP_S) * 1000
          IN  IF n >= RETRY_MAX THEN DB[i].status = "DLQ"
              ELSE /\ DB[i].attempt_count = n
                   /\ DB[i].next_attempt_at >= lo
                   /\ DB[i].next_attempt_at < lo + 1000
                   /\ IF h.claimed[i] <= h.lastFail[i].at
                      THEN DB[i].status = "FAILED"
                      ELSE /\ DB[i].status \in {"SENDING", "SENT"}
                           /\ h.claimed[i] >= DB[i].next_attempt_at

\* an item rescheduled for the last time (n = RETRY_MAX - 1, 128 s) has been
\* claimed again, after another one has exhausted its reschedules
C23_ClaimedAfterLastBackoff ==
    /\ IsPipe
    /\ \E i \in Items :
          /\ h.lastFail[i].a = RETRY_MAX - 2 /\ DB[i].status = "SENDING"
          /\ h.claimed[i] >= DB[i].next_attempt_at
          /\ DB[i].next_attempt_at >= h.lastFail[i].at + Pow2(RETRY_MAX - 1) * 1000
    /\ \E j \in Items : h.lastFail[j].a = RETRY_MAX - 1 /\ DB[j].status = "DLQ"

\* the first turn at which fn succeeds or throws an error not to be retried
ExecuteStopsAt(rs, fn) ==
    CHOOSE k \in 1..rs.maxAttempts :
        /\ fnCall(fn, k).ok \/ ~shouldRetry(rs, k, fnCall(fn, k))
        /\ \A m \in 1..(k - 1) : ~fnCall(fn, m).ok /\ shouldRetry(rs, m, fnCall(fn, m))

\* C24  RetryStrategy.execute(fn) invokes fn at least once and at most
\* maxAttempts times, stops at the first success or at the first error for
\* which shouldRetry is false, and returns attempts equal to the number of
\* invocations of fn and success true iff the last invocation succeeded.
ExecuteReport ==
    sys = "execute" /\ objCall.op = "execute" =>
        LET r == objCall.ret
        IN  /\ r.invoked >= 1 /\ r.invoked <= objCall.pre.maxAttempts
            /\ r.invoked = ExecuteStopsAt(objCall.pre, objCall.arg.fn)
            /\ r.success = r.lastOk
            /\ r.attempts = r.invoked

\* the backoff of an attempt, and the upper end of the decorrelated range
RSBackoff(rs, a) == Min(rs.baseDelayMs * Pow(rs.exponentialBase, a - 1), rs.maxDelayMs)
RSDecorrelatedMax(rs, a) == Min(3 * RSBackoff(rs, a), rs.maxDelayMs)

\* the delays of attempt a differ between two draws
RSDrawsDiffer(rs, a) ==
    \E u1, u2 \in RSDraws : getDelay(rs, a, 0, u1).ret # getDelay(rs, a, 0, u2).ret

\* what C25 says of every mode
JitterBounds ==
    sys = "retry" /\ objCall.op = "getDelay" /\ objCall.arg.retryAfterMs = 0 =>
        LET rs == objCall.pre
            a  == objCall.arg.attempt
            d  == objCall.ret
        IN  /\ d \in Nat /\ d <= rs.maxDelayMs
            /\ rs.jitterType = "full" => d <= RSBackoff(rs, a)
            /\ rs.jitterType = "decorrelated" /\ rs.baseDelayMs <= rs.maxDelayMs
                 => d >= rs.baseDelayMs /\ d <= RSDecorrelatedMax(rs, a)

\* C25  Jitter ranges, as stated.  With no retry-after hint getDelay returns
\* an integer d with 0 <= d <= maxDelayMs; in full mode d <= the backoff; in
\* decorrelated mode with baseDelayMs <= maxDelayMs, baseDelayMs <= d <=
\* min(3 * backoff, maxDelayMs) and d is not the same constant for all draws.
JitterRanges ==
    /\ JitterBounds
    /\ sys = "retry" /\ objCall.op = "getDelay" /\ objCall.arg.retryAfterMs = 0
         /\ objCall.pre.jitterType = "decorrelated"
         /\ objCall.pre.baseDelayMs <= objCall.pre.maxDelayMs
         => RSDrawsDiffer(objCall.pre, objCall.arg.attempt)

\* C25 amended: the same, but d varies with the draw only where the
\* decorrelated range holds more than one integer below its upper end, that
\* is where min(3 * backoff, maxDelayMs) - baseDelayMs >= 2.
JitterRangesWhereWide ==
    /\ JitterBounds
    /\ sys = "retry" /\ objCall.op = "getDelay" /\ objCall.arg.retryAfterMs = 0
         /\ objCall.pre.jitterType = "decorrelated"
         /\ RSDecorrelatedMax(objCall.pre, objCall.arg.attempt)
               - objCall.pre.baseDelayMs >= 2
         => RSDrawsDiffer(objCall.pre, objCall.arg.attempt)

\* a decorrelated delay of the spec's example (baseDelayMs 100, maxDelayMs
\* 3000) for an attempt whose backoff is capped, strictly inside the range
C25_DecorrelatedInsideRange ==
    /\ sys = "retry" /\ objCall.op = "getDelay" /\ objCall.arg.retryAfterMs = 0
    /\ objCall.pre.jitterType = "decorrelated"
    /\ objCall.pre.baseDelayMs = 100 /\ objCall.pre.maxDelayMs = 3000
    /\ RSBackoff(objCall.pre, objCall.arg.attempt) = objCall.pre.maxDelayMs
    /\ objCall.ret > objCall.pre.baseDelayMs /\ objCall.ret < objCall.pre.maxDelayMs

\* the points of log that a read at the time of the last call must retain:
\* those with now - timestamp <= windowMs
SWFresh(log) ==
    LET Fresh(p) == objCall.at - p.timestamp <= objCall.pre.windowMs
    IN  SelectSeq(log, Fresh)

\* every point recorded, and the points recorded since the last reset()
SWRecorded == objCall.log
SWRecordedSinceReset == SubSeq(objCall.log, objCall.since + 1, Len(objCall.log))

\* the calls that read the window
SWIsRead == objCall.op \in {"getErrorRate", "getP95Latency", "getP99Latency",
                            "getRequestCount", "getSuccessRate", "getAverageLatency",
                            "getMedianLatency", "getThroughput", "getMetrics"}

\* window honesty of the last call, the recorded points being those of log
SWHonest(log) ==
    sys = "window" /\ SWIsRead =>
        LET kept == SWFresh(log)
            n    == Len(kept)
            bad  == Cardinality({k \in 1..n : ~kept[k].success})
            er   == IF objCall.op = "getMetrics" THEN objCall.ret.errorRate ELSE objCall.ret
            p95  == IF objCall.op = "getMetrics" THEN objCall.ret.p95Latency ELSE objCall.ret
            p99  == IF objCall.op = "getMetrics" THEN objCall.ret.p99Latency ELSE objCall.ret
        IN  /\ obj.dataPoints = kept
            /\ objCall.op \in {"getErrorRate", "getMetrics"} =>
                  IF n = 0 THEN er.num = 0
                  ELSE er.den > 0 /\ er.num * n = bad * er.den
            /\ objCall.op \in {"getP95Latency", "getMetrics"} /\ n >= 1 =>
                  /\ p95 = SW_sortedAt(kept, (n * 95) \div 100)
                  /\ \E k \in 1..Len(log) : log[k].latency = p95
            /\ objCall.op \in {"getP99Latency", "getMetrics"} /\ n >= 1 =>
                  /\ p99 = SW_sortedAt(kept, (n * 99) \div 100)
                  /\ \E k \in 1..Len(log) : log[k].latency = p99
            /\ objCall.op \in {"getP95Latency", "getP99Latency"} /\ n = 0
                  => objCall.ret = 0

\* C26  Window honesty, as stated.  A read of the SlidingWindow retains
\* exactly the recorded points with now - timestamp <= windowMs;
\* getErrorRate() is the number of retained failures over the number of
\* retained points, 0 when there is none; getP95Latency() and getP99Latency()
\* return the element at index floor(n * p) of the ascending retained
\* latencies, a recorded latency.
WindowHonesty == SWHonest(SWRecorded)

\* C26 amended: the same, the recorded points being those recorded since the
\* construction of the window or its last reset().
WindowHonestySinceReset == SWHonest(SWRecordedSinceReset)

\* a percentile read over more than SWBurst retained points, a reset() having
\* dropped a recorded point before, whose answer is not the largest retained
\* latency
C26_PercentileBelowMax ==
    /\ sys = "window" /\ objCall.op \in {"getP95Latency", "getP99Latency"}
    /\ Len(obj.dataPoints) > SWBurst
    /\ objCall.since > 0
    /\ Len(SWRecordedSinceReset) = Len(obj.dataPoints)
    /\ \E k \in 1..Len(obj.dataPoints) : obj.dataPoints[k].latency > objCall.ret

\* C27  Reads never use expired points.  Every metric read, the reads of the
\* controller tick included, is computed only over points with
\* now - timestamp <= windowDuration: for the SlidingWindow class and for the
\* window functions of simulate.js and the demo.
ReadsSkipExpired ==
    /\ sys = "window" /\ SWIsRead =>
          \A k \in 1..Len(obj.dataPoints) :
              objCall.at - obj.dataPoints[k].timestamp <= objCall.pre.windowMs
    /\ IsPipe /\ h.tick.n > 0 => h.tick.at - h.tick.oldest <= WINDOW_MS

\* C28  tryTake() returns true and decreases tokens by exactly 1 when, after
\* the refill, tokens >= 1, and otherwise returns false and consumes nothing;
\* with no time elapsed a fresh TokenBucket(n) reports n available tokens, and
\* n - 1 after one successful tryTake().  (Tokens are counted in thousandths;
\* bucket.last is the time of the last call, bucket.err the rounding of its
\* refill.)
TryTakeContract ==
    /\ sys = "bucket" /\ tbCall.op = "tryTake" =>
          LET r == refill(tbCall.pre, bucket.last, bucket.err)
          IN  /\ bucket.err \in Roundings(tbCall.pre, bucket.last)
              /\ IF hasToken(r)
                 THEN tbCall.ret = 1 /\ bucket.tokens = r.tokens - 1000
                 ELSE tbCall.ret = 0 /\ bucket.tokens = r.tokens
    /\ sys = "bucket" /\ tbCall.n = 1 /\ bucket.last = tbCall.pre.last =>
          /\ tbCall.op = "getAvailableTokens" => tbCall.ret = tbCall.pre.capacity
          /\ tbCall.op = "tryTake" =>
                /\ tbCall.ret = 1
                /\ getAvailableTokens(bucket, bucket.last, bucket.err).n
                      = tbCall.pre.capacity - 1

\* a tryTake that found a fraction of a token after its refill and said no
C28_RefusedOnFraction ==
    /\ sys = "bucket" /\ tbCall.op = "tryTake" /\ tbCall.ret = 0
    /\ bucket.tokens > 0 /\ bucket.tokens < 1000
    /\ bucket.last > tbCall.pre.last

\* C29  Claim correctness and exclusive ownership.  dbFetchBatch(limit)
\* returns at most limit rows, each of which was PENDING or FAILED with
\* next_attempt_at <= now when it was called and is SENDING after it (the
\* other rows are left as they were); in the pipeline no row has two worker
\* tasks at a time, and a row has a task exactly while it is SENDING.
ClaimExclusive ==
    /\ sys = "store" /\ objCall.op = "dbFetchBatch" =>
          LET rows == objCall.ret
              pre  == objCall.pre
              got  == {rows[k] : k \in 1..Len(rows)}
          IN  /\ Len(rows) <= objCall.arg.limit
              /\ Cardinality(got) = Len(rows)
              /\ \A i \in got :
                    /\ pre[i].status \in {"PENDING", "FAILED"}
                    /\ pre[i].next_attempt_at <= objCall.arg.t
                    /\ obj[i] = [pre[i] EXCEPT !.status = "SENDING"]
              /\ \A i \in Items \ got : obj[i] = pre[i]
    /\ IsPipe =>
          \A i \in Items :
              /\ h.live[i] \in {0, 1}
              /\ h.live[i] = 1 <=> DB[i].status = "SENDING"
              /\ h.live[i] = 1 <=> task[i].pc # "none"

\* a dbFetchBatch that stopped at its limit of two rows and left a due row
\* unclaimed
C29_StoppedAtLimit ==
    /\ sys = "store" /\ objCall.op = "dbFetchBatch"
    /\ objCall.arg.limit = 2 /\ Len(objCall.ret) = 2
    /\ \E i \in Items :
          /\ obj[i].status \in {"PENDING", "FAILED"}
          /\ obj[i].next_attempt_at <= objCall.arg.t

\* a step leaves the SENT and DLQ rows of the pipeline alone: row, claim,
\* worker task and number of transport invocations
TerminalUntouched ==
    IsPipe =>
      \A i \in Items :
        Terminal(DB[i].status) =>
          /\ DB'[i] = DB[i]
          /\ h'.claimed[i] = h.claimed[i]
          /\ task'[i] = task[i] /\ task[i].pc = "none"
          /\ calls'[i] = calls[i]

\* a dbFetchBatch of the store's caller leaves the SENT and DLQ rows alone
TerminalUnclaimed ==
    sys = "store" =>
      \A i \in Items :
        Terminal(obj[i].status) =>
          /\ obj'[i] = obj[i]
          /\ \A k \in 1..Len(objCall'.ret) : objCall'.ret[k] # i \/ objCall' = objCall

\* C30  Terminal states are absorbing.  Once a row is SENT or DLQ its status
\* never changes again, no dbFetchBatch claims it, and no transport
\* invocation is made for it.
TerminalAbsorbing == [][TerminalUntouched /\ TerminalUnclaimed]_vars

\* one row is SENT and another is in the DLQ while the dispatcher has since
\* claimed a third one, which is being sent
C30_WorkGoesOnAfterTerminal ==
    /\ IsPipe
    /\ \E i, j, k \in Items :
          /\ DB[i].status = "SENT" /\ DB[j].status = "DLQ"
          /\ DB[k].status = "SENDING" /\ task[k].pc = "sending"
          /\ h.claimed[k] > h.claimed[i] /\ h.claimed[k] > h.claimed[j]

\* once the signal has come, a step claims no row
NoClaimAfterSigterm ==
    IsPipe /\ shuttingDown =>
        /\ h'.claimed = h.claimed
        /\ \A i \in Items : DB'[i].status = "SENDING" => DB[i].status = "SENDING"
        /\ \A i \in Items : task[i].pc = "none" => task'[i].pc = "none"

\* the process has exited after a signal: every task added has ended with
\* its row finalized, and no row is SENDING
DrainedAtExit ==
    IsPipe /\ shuttingDown /\ mainPc.pc = "exit0" =>
        \A i \in Items :
            /\ DB[i].status # "SENDING"
            /\ task[i].pc = "none" /\ h.live[i] = 0
            /\ h.claimed[i] >= 0 =>
                  h.markSent[i] + h.schedRetry[i] + h.moveToDLQ[i] >= 1

\* C31  Graceful shutdown.  After SIGTERM no further batch is claimed, every
\* row already claimed is finalized by its worker, and when the process
\* exits no row is SENDING.
GracefulShutdown == [][NoClaimAfterSigterm]_vars /\ []DrainedAtExit

\* the signal came while two or more tasks had not ended, and the process
\* has exited leaving a row to be retried
C31_ExitedAfterDrain ==
    /\ IsPipe /\ shuttingDown /\ mainPc.pc = "exit0"
    /\ h.sigLive >= 2
    /\ \E i \in Items : DB[i].status = "FAILED" /\ h.lastFail[i].at > h.claimed[i]

\* what C32 says of one update() call: during warmup it changes nothing and
\* notifies nobody; the first one at or after warmupDuration notifies
\* warmup_complete first, with old = warmupRate and new = currentRate; no
\* other one notifies it
WarmupUpdateRule ==
    sys = "aimd" /\ aimdCall.op = "update" =>
        LET c   == aimdCall.pre
            due == aimdCall.at - c.startTime >= c.warmupDuration
        IN  /\ ~c.warmupComplete /\ ~due =>
                  /\ aimd = c /\ aimdCall.events = <<>> /\ aimdCall.ret = c.warmupRate
            /\ ~c.warmupComplete /\ due =>
                  /\ aimd.warmupComplete
                  /\ Len(aimdCall.events) >= 1
                  /\ aimdCall.events[1] = [old |-> c.warmupRate, new |-> c.currentRate,
                                           reason |-> "warmup_complete"]
                  /\ WarmupEvents(aimdCall.events) = 1
            /\ c.warmupComplete => WarmupEvents(aimdCall.events) = 0

\* C32  Warmup ends once, as stated.  Over any sequence of AIMDController
\* operations warmupComplete only changes from false to true, warmup_complete
\* is notified exactly once (on the first update at or after warmupDuration,
\* with old = warmupRate and new = currentRate), and update() during warmup
\* neither changes currentRate nor calls the listener.
WarmupEndsOnce ==
    /\ WarmupUpdateRule
    /\ sys = "aimd" /\ aimdCall.op # "new" =>
          /\ aimdCall.pre.warmupComplete => aimd.warmupComplete
          /\ aimdCall.wc <= 1
          /\ aimdCall.wc = 1 <=> aimd.warmupComplete

\* C32 amended: the same for every operation but reset(), and once per
\* warmup: reset() clears warmupComplete and starts a new warmup, which ends
\* with one more warmup_complete.
WarmupEndsOncePerWarmup ==
    /\ WarmupUpdateRule
    /\ sys = "aimd" /\ aimdCall.op # "new" =>
          /\ aimdCall.op # "reset" /\ aimdCall.pre.warmupComplete => aimd.warmupComplete
          /\ aimdCall.op = "reset" => ~aimd.warmupComplete /\ aimd.startTime = aimdCall.at
          /\ aimdCall.wcSince <= 1
          /\ aimdCall.wcSince = 1 <=> aimd.warmupComplete

\* the update that ends the second warmup, begun by a reset()
C32_SecondWarmupEnds ==
    /\ sys = "aimd" /\ aimdCall.op = "update"
    /\ aimdCall.wc = 2 /\ aimdCall.wcSince = 1
    /\ WarmupEvents(aimdCall.events) = 1
    /\ aimdCall.at - aimdCall.pre.startTime = aimdCall.pre.warmupDuration

\* C33  Strict per-worker order.  Every transport invocation of a worker
\* comes after a breaker check that did not block and a pacer token, both
\* taken since the worker's previous transport invocation (or since the task
\* started); the outcome is then recorded, the breaker updated and the item
\* finalized.
StrictWorkerOrder ==
    IsPipe => \A i \in Items : h.gated[i] = calls[i]

\* C35  Clock-skew clamp.  TokenBucket.refill() never decreases tokens; when
\* the clock reads earlier than lastRefill the elapsed time counts as 0, so
\* tokens is unchanged and stays >= 0.
RefillClamped ==
    sys = "bucket" /\ tbCall.op = "refill" =>
        /\ bucket.tokens >= tbCall.pre.tokens
        /\ bucket.last < tbCall.pre.last =>
              bucket.tokens = tbCall.pre.tokens /\ bucket.tokens >= 0

\* a turn of take() returns exactly when its refill finds a whole token, and
\* then consumes exactly that one; tokens never goes negative; as many
\* take() calls have returned as tokens were consumed
TakeConsumesOne ==
    sys = "waiters" =>
        /\ bucket.tokens >= 0
        /\ objCall.returned = Cardinality({w \in Waiters : obj[w].pc = "returned"})
        /\ objCall.op = "take" =>
              LET r == refill(objCall.pre, objCall.at, bucket.err)
              IN  IF objCall.ok
                  THEN hasToken(r) /\ bucket.tokens = r.tokens - 1000
                  ELSE ~hasToken(r) /\ bucket.tokens = r.tokens

AllTakesReturned == sys = "waiters" /\ \A w \in Waiters : obj[w].pc = "returned"

\* C34  acquire under contention.  With tasks waiting together in take() and
\* rate >= 1, each return of take() is one decrement of tokens by 1 made when
\* tokens >= 1 (no token is consumed twice, tokens is never negative), and
\* with time advancing and due turns run, every waiting take() returns.
TakeUnderContention == []TakeConsumesOne /\ <>AllTakesReturned

\* the last of the waiters returns, having slept while the others took
\* the tokens that came before
C34_LastWaiterReturns ==
    /\ AllTakesReturned
    /\ objCall.op = "take" /\ objCall.ok /\ objCall.returned = NWaiters
    /\ objCall.at >= 1000
    /\ \E w \in Waiters : w # objCall.who /\ obj[w].wakeAt < objCall.at

\* =========================================================================
\* The controller and the breaker on their own (sys = "interval"):
\* controller() sleeps through the warm-up, sets the pacer to MAX_RPS and arms
\* the interval, whose callback runs against any signals and any backlog.
\* The breaker works from the start of the program: the workers call it at
\* any time, before the warm-up is over and between two ticks.
\* =========================================================================
IVMaxRps      == 8         \* MAX_RPS is not raised beyond this
IVMaxTicks    == 4         \* ticks of the interval
IVMaxFailures == 10        \* onFailure is not called on more consecutive failures

IVClockSteps == {10000}

\* obj: the variant, MAX_RPS, the CB object, the controller's timer and the
\* number of ticks run; objCall: the last tick
InitIV ==
    /\ sys = "interval"
    /\ inflight = <<>>
    /\ now = 0
    /\ bucket = TokenBucket(WARMUP_RPS, 0)
    /\ tbCall = NoCall
    /\ \E v \in {"simulate", "demo"} :
          obj = [v |-> v, MAX_RPS |-> INITIAL_MAX_RPS, CB |-> CBInit, n |-> 0,
                 ctl |-> [pc |-> "warmup", wakeAt |-> WarmupMs(v)]]
    /\ objCall = [op |-> "none", bad |-> FALSE, depth |-> 0, halfOpen |-> FALSE]
    /\ PipeIdle /\ AIMDIdle /\ CBIdle

\* time passes; the controller's timer fires when it is due
IV_Clock ==
    /\ sys = "interval"
    /\ now < obj.ctl.wakeAt
    /\ \E d \in IVClockSteps : now' = Min(now + d, obj.ctl.wakeAt)
    /\ UNCHANGED <<sys, objVars, tbVars, pipeVars, aimdVars, cbVars>>

\* a worker calls the breaker: CB.shouldBlock() before it sends,
\* CB.onSuccess() or CB.onFailure() when the answer is there
IV_Breaker ==
    /\ sys = "interval"
    /\ \E op \in {"shouldBlock", "onSuccess", "onFailure"} :
          /\ op = "onFailure" => obj.CB.consecutiveFailures < IVMaxFailures
          /\ obj' = [obj EXCEPT !.CB =
                        CASE op = "shouldBlock" -> CB_shouldBlock(@, now).cb
                          [] op = "onSuccess"   -> CB_onSuccess(@, now)
                          [] OTHER              -> CB_onFailure(@, now)]
    /\ UNCHANGED <<sys, now, objCall, inflight, tbVars, pipeVars, aimdVars, cbVars>>

\* await sleep(WARMUP_MS) is over: bucket.setRate(MAX_RPS), setInterval
IV_WarmupEnd ==
    /\ sys = "interval"
    /\ obj.ctl.pc = "warmup" /\ obj.ctl.wakeAt <= now
    /\ bucket' = setRate(bucket, obj.MAX_RPS)
    /\ obj' = [obj EXCEPT !.ctl = [pc |-> "interval", wakeAt |-> now + RampEvery(obj.v)]]
    /\ UNCHANGED <<sys, now, objCall, inflight, tbCall, pipeVars, aimdVars, cbVars>>

\* one run of the interval callback
IV_Tick ==
    /\ sys = "interval"
    /\ obj.ctl.pc = "interval" /\ obj.ctl.wakeAt <= now
    /\ obj.n < IVMaxTicks
    /\ \E bad \in BOOLEAN, depth \in {0, 1} :
          LET rps == aimdStep(obj.v, obj.MAX_RPS, bad, depth)
          IN  /\ rps <= IVMaxRps
              /\ obj' = [obj EXCEPT !.MAX_RPS = rps, !.n = @ + 1,
                                     !.ctl.wakeAt = @ + RampEvery(obj.v)]
              /\ bucket' = tickBucket(bucket, obj.v, rps, bad, depth, obj.CB.state)
              /\ objCall' = [op |-> "tick", bad |-> bad, depth |-> depth,
                             halfOpen |-> (obj.CB.state = "HalfOpen")]
    /\ UNCHANGED <<sys, now, inflight, tbCall, pipeVars, aimdVars, cbVars>>

NextIV == IV_Clock \/ IV_Breaker \/ IV_WarmupEnd \/ IV_Tick

\* both pipelines, and the interval callback on its own
InitPacer == InitPipeOf({"simulate", "demo"}) \/ InitIV
NextPacer == NextPipe \/ NextIV
SpecPacer == InitPacer /\ [][NextPacer]_vars

\* C36  Pacer follows the controller.  After every tick of the controller's
\* interval the bucket's rate is min(MAX_RPS, HALF_OPEN_PROBE_RPS) if the
\* breaker is HalfOpen at that tick and MAX_RPS otherwise, in simulate.js
\* and in the demo: a half-open clamp is gone at the first later tick that
\* does not find the breaker HalfOpen.
PacerFollowsController ==
    /\ IsPipe /\ h.tick.n > 0 =>
          h.tick.rate = IF h.tick.halfOpen
                        THEN Min(h.tick.new, HALF_OPEN_PROBE_RPS)
                        ELSE h.tick.new
    /\ sys = "interval" /\ objCall.op = "tick" =>
          bucket.rate = IF objCall.halfOpen
                        THEN Min(obj.MAX_RPS, HALF_OPEN_PROBE_RPS)
                        ELSE obj.MAX_RPS

\* =========================================================================
\* ProtectedChatClient                          (src/integration-example.js)
\* sys = "client": a caller of sendMessage() and getHealthStatus(); fetch()
\* is the transport.  A sendMessage() call runs without interruption up to
\* its first await and from one await to the next; the calls in flight are
\* in inflight.
\* =========================================================================
CLMaxTime  == 40000        \* the client's clock stops here (ms)
CLMaxSends == 3            \* sendMessage is not called beyond this count

\* new ProtectedChatClient(apiEndpoint, options)
ProtectedChatClient(o) ==
    [rateLimiter    |-> TokenBucket(OrDefault(o.maxRPS, 10), 0),
     metrics        |-> SlidingWindow([windowMs |-> 30000]),
     circuitBreaker |-> CircuitBreaker([failureThreshold   |-> OrDefault(o.failureThreshold, 5),
                                        openDurationMs     |-> 0,
                                        halfOpenDurationMs |-> 0,
                                        halfOpenProbeLimit |-> 0,
                                        listenerThrows     |-> FALSE]),
     totalSent      |-> 0,
     totalFailed    |-> 0]

\* A sendMessage() call: pc is "take" while the sleep of rateLimiter.take()
\* runs, "taken" when take() has returned, "fetch" while fetch() is awaited,
\* "json" while response.json() is.  points, log and counted are what the
\* call has done so far: the data points it recorded, its breaker calls, and
\* by how much it raised totalSent + totalFailed.
SendCall ==
    [pc |-> "new", wakeAt |-> 0, start |-> 0, r |-> "none", blocked |-> FALSE,
     points |-> 0, log |-> <<>>, counted |-> 0]

\* the call after a step that took the client from c to c1 and made the
\* breaker calls bcalls
CL_did(call, c, c1, bcalls) ==
    [call EXCEPT !.points  = @ + c1.metrics.totalCount - c.metrics.totalCount,
                 !.log     = @ \o bcalls,
                 !.counted = @ + (c1.totalSent + c1.totalFailed)
                               - (c.totalSent + c.totalFailed)]

\* metrics.record(latency, true); circuitBreaker.onSuccess(); totalSent++
CL_success(c, lat, t) ==
    [c EXCEPT !.metrics        = SW_record(@, lat, TRUE, t),
              !.circuitBreaker = onSuccess(@, t).c,
              !.totalSent      = @ + 1]

\* metrics.record(latency, false); circuitBreaker.onFailure(); totalFailed++
CL_failure(c, lat, t) ==
    [c EXCEPT !.metrics        = SW_record(@, lat, FALSE, t),
              !.circuitBreaker = onFailure(@, t).c,
              !.totalFailed    = @ + 1]

\* the sleeps of take() after a turn at t that left b short of a token: the
\* turns at which the refill cannot reach one token are passed over
CL_takeUntil(b, t) ==
    t + TAKE_SLEEP_MS * (IF b.rate > 0
                         THEN Max(1, CeilDiv(1000 - b.tokens, TAKE_SLEEP_MS * b.rate))
                         ELSE 1)

\* await this.rateLimiter.take(), one turn of its loop at time t, the sum
\* of its refill rounded as e says
CL_take(c, call, t, e) ==
    LET tk == tryTake(c.rateLimiter, t, e)
    IN  IF tk.ok
        THEN [c    |-> [c EXCEPT !.rateLimiter = tk.b],
              call |-> [call EXCEPT !.pc = "taken"], done |-> FALSE]
        ELSE [c    |-> [c EXCEPT !.rateLimiter = polled(tk.b)],
              call |-> [call EXCEPT !.pc = "take", !.wakeAt = CL_takeUntil(tk.b, t)],
              done |-> FALSE]

\* sendMessage(message) called at time t: the breaker is asked, and the call
\* throws or enters take()
sendMessage(c, t, e) ==
    LET sb == shouldBlock(c.circuitBreaker, t)
        c1 == [c EXCEPT !.circuitBreaker = sb.c]
    IN  IF sb.ret
        THEN [c |-> c1, call |-> [SendCall EXCEPT !.pc = "done", !.blocked = TRUE],
              done |-> TRUE]
        ELSE CL_take(c1, SendCall, t, e)

\* take() has returned: start = Date.now() and fetch() is called; its answer
\* comes lat ms later
sendMessage_fetch(c, call, t, lat) ==
    [c |-> c, call |-> [call EXCEPT !.pc = "fetch", !.start = t, !.wakeAt = t + lat],
     done |-> FALSE]

\* What fetch() does: "ok" (it resolves with a 2xx), "http" (it resolves
\* with a response that is not ok), "thrown" (it rejects).
CLResponses == {"ok", "http", "thrown"}

\* fetch() has settled at time t with r
sendMessage_response(c, call, t, r) ==
    LET latency == t - call.start
    IN  CASE r = "ok" ->
               LET c1 == CL_success(c, latency, t)
               IN  [c |-> c1, done |-> FALSE,
                    call |-> [CL_did(call, c, c1, <<"onSuccess">>) EXCEPT !.pc = "json"]]
          [] r = "http" ->
               \* the error of the !response.ok branch is thrown inside the
               \* try block and caught by its catch
               LET c1 == CL_failure(CL_failure(c, latency, t), latency, t)
               IN  [c |-> c1, done |-> TRUE,
                    call |-> [CL_did(call, c, c1, <<"onFailure", "onFailure">>)
                                EXCEPT !.pc = "done", !.r = "http"]]
          [] OTHER ->
               LET c1 == CL_failure(c, latency, t)
               IN  [c |-> c1, done |-> TRUE,
                    call |-> [CL_did(call, c, c1, <<"onFailure">>)
                                EXCEPT !.pc = "done", !.r = "thrown"]]

\* response.json() has settled at time t: the body parses (good) and
\* sendMessage returns, or json() rejects inside the try block
sendMessage_json(c, call, t, good) ==
    IF good
    THEN [c |-> c, done |-> TRUE, call |-> [call EXCEPT !.pc = "done", !.r = "ok"]]
    ELSE LET c1 == CL_failure(c, t - call.start, t)
         IN  [c |-> c1, done |-> TRUE,
              call |-> [CL_did(call, c, c1, <<"onFailure">>)
                          EXCEPT !.pc = "done", !.r = "okBadBody"]]

\* Math.round(n / d), n >= 0, d > 0: the quotient of two small integers is
\* a tie only at k + 1/2, which a double holds exactly
RoundDiv(n, d) == (2 * n + d) \div (2 * d)

\* The digits of x.toFixed(k), where x is the double computed for n / d
\* (n already scaled by 10^k).  toFixed rounds the double, not the quotient:
\* where n / d is exactly k + 1/2 the double lies at the tie or just beside
\* it (7 / 2.24 = 3.1249999999999996 gives "3.12"), and up says whether it
\* came out at or above the tie; anywhere else the rounding of the quotient
\* and of the double agree.
isTie(n, d) == (2 * n) % d = 0 /\ ((2 * n) \div d) % 2 = 1

toFixed(n, d, up) ==
    IF isTie(n, d) THEN (n \div d) + (IF up THEN 1 ELSE 0) ELSE RoundDiv(n, d)

\* On which side of a tie the doubles of the three quotients that
\* getHealthStatus() formats at time t can fall (FALSE where there is no tie)
Fixings(c, t) ==
    LET m   == SW_getMetrics(c.metrics, t).ret
        tot == c.totalSent + c.totalFailed
        side(n, d) == IF isTie(n, d) THEN BOOLEAN ELSE {FALSE}
    IN  [errorRate   : side(m.errorRate.num * 1000, m.errorRate.den),
         throughput  : side(m.throughput.num * 100, m.throughput.den),
         successRate : IF tot = 0 THEN {FALSE} ELSE side(c.totalSent * 1000, tot)]

\* getHealthStatus() at time t.  A string is written as its number:
\* errorRate and successRate in tenths of a percent (successRate -1 for NaN),
\* throughput in hundredths.
getHealthStatus(c, t, e, fx) ==
    LET m   == SW_getMetrics(c.metrics, t)
        gs  == getState(c.circuitBreaker, t)
        av  == getAvailableTokens(c.rateLimiter, t, e)
        tot == c.totalSent + c.totalFailed
    IN  [c   |-> [c EXCEPT !.metrics = m.w, !.circuitBreaker = gs.c, !.rateLimiter = av.b],
         ret |-> [rateLimiter    |-> [currentRate |-> c.rateLimiter.rate,
                                      availableTokens |-> av.n],
                  circuitBreaker |-> [state |-> gs.ret.state,
                                      failures |-> gs.ret.consecutiveFailures,
                                      isBlocking |-> gs.ret.isBlocking],
                  performance    |-> [requestCount |-> m.ret.requestCount,
                                      errorRate |-> toFixed(m.ret.errorRate.num * 1000,
                                                            m.ret.errorRate.den,
                                                            fx.errorRate),
                                      avgLatency |-> RoundDiv(m.ret.avgLatency.num,
                                                              m.ret.avgLatency.den),
                                      p95Latency |-> m.ret.p95Latency,
                                      throughput |-> toFixed(m.ret.throughput.num * 100,
                                                             m.ret.throughput.den,
                                                             fx.throughput)],
                  business       |-> [totalSent |-> c.totalSent,
                                      totalFailed |-> c.totalFailed,
                                      successRate |-> IF tot = 0 THEN -1
                                                      ELSE toFixed(c.totalSent * 1000, tot,
                                                                   fx.successRate)]]]

CLOptions == [maxRPS : {0, 1}, failureThreshold : {0, 2}]
CLLatencies == {30}
CLClockSteps == {10000}

\* obj: the client; objCall: the last sendMessage() that returned or threw
\* (op = "sendMessage": its record) or the last getHealthStatus(); n counts
\* the sendMessage() calls made.
InitClient ==
    /\ sys = "client"
    /\ inflight = <<>>
    /\ now = 0
    /\ \E o \in CLOptions : obj = ProtectedChatClient(o)
    /\ objCall = [op |-> "new", n |-> 0, r |-> "none", blocked |-> FALSE,
                  points |-> 0, log |-> <<>>, counted |-> 0, ret |-> 0]
    /\ bucket = 0 /\ tbCall = NoCall
    /\ PipeIdle /\ AIMDIdle /\ CBIdle

CLRest == <<sys, tbVars, pipeVars, aimdVars, cbVars>>

SendReturned(call, n) ==
    [op |-> "sendMessage", n |-> n, r |-> call.r, blocked |-> call.blocked,
     points |-> call.points, log |-> call.log, counted |-> call.counted, ret |-> 0]

\* the timers of the calls in flight
CLTimers == {inflight[k].wakeAt :
                k \in {j \in 1..Len(inflight) : inflight[j].pc \in {"take", "fetch"}}}

\* the clock moves to the next timer, or on when nothing is in flight; a
\* promise that has settled is served first
CL_Clock ==
    /\ sys = "client"
    /\ \A k \in 1..Len(inflight) : inflight[k].pc \in {"take", "fetch"}
    /\ \A t \in CLTimers : t > now
    /\ \E t \in (IF CLTimers = {} THEN {now + d : d \in CLClockSteps} ELSE CLTimers) :
          /\ \A u \in CLTimers : t <= u
          /\ t <= CLMaxTime
          /\ now' = t
    /\ UNCHANGED <<CLRest, objVars>>

CL_SendMessage ==
    /\ sys = "client"
    /\ objCall.n < CLMaxSends
    /\ \E e \in Roundings(obj.rateLimiter, now) :
          LET s == sendMessage(obj, now, e)
          IN  /\ obj' = s.c
              /\ IF s.done
                 THEN /\ inflight' = inflight
                      /\ objCall' = SendReturned(s.call, objCall.n + 1)
                 ELSE /\ inflight' = Append(inflight, s.call)
                      /\ objCall' = [objCall EXCEPT !.n = @ + 1]
    /\ UNCHANGED <<CLRest, now>>

\* a step of the call inflight[k] whose outcome is s
CL_Step(k, s) ==
    /\ obj' = s.c
    /\ IF s.done
       THEN /\ inflight' = WithoutCall(k)
            /\ objCall' = SendReturned(s.call, objCall.n)
       ELSE /\ inflight' = [inflight EXCEPT ![k] = s.call]
            /\ objCall' = objCall

CL_TakeWakes ==
    /\ sys = "client"
    /\ \E k \in 1..Len(inflight) :
          /\ inflight[k].pc = "take" /\ inflight[k].wakeAt <= now
          /\ \E e \in Roundings(obj.rateLimiter, now) :
                CL_Step(k, CL_take(obj, inflight[k], now, e))
    /\ UNCHANGED <<CLRest, now>>

CL_Fetch ==
    /\ sys = "client"
    /\ \E k \in 1..Len(inflight), lat \in CLLatencies :
          /\ inflight[k].pc = "taken"
          /\ CL_Step(k, sendMessage_fetch(obj, inflight[k], now, lat))
    /\ UNCHANGED <<CLRest, now>>

CL_Response ==
    /\ sys = "client"
    /\ \E k \in 1..Len(inflight), r \in CLResponses :
          /\ inflight[k].pc = "fetch" /\ inflight[k].wakeAt <= now
          /\ CL_Step(k, sendMessage_response(obj, inflight[k], now, r))
    /\ UNCHANGED <<CLRest, now>>

CL_Json ==
    /\ sys = "client"
    /\ \E k \in 1..Len(inflight), good \in BOOLEAN :
          /\ inflight[k].pc = "json"
          /\ CL_Step(k, sendMessage_json(obj, inflight[k], now, good))
    /\ UNCHANGED <<CLRest, now>>

CL_GetHealthStatus ==
    /\ sys = "client"
    /\ \E e \in Roundings(obj.rateLimiter, now), fx \in Fixings(obj, now) :
          LET g == getHealthStatus(obj, now, e, fx)
          IN  /\ obj' = g.c
              /\ objCall' = [op |-> "getHealthStatus", n |-> objCall.n, r |-> "none",
                             blocked |-> FALSE, points |-> 0, log |-> <<>>, counted |-> 0,
                             ret |-> g.ret]
    /\ UNCHANGED <<CLRest, now, inflight>>

NextClient ==
    \/ CL_Clock
    \/ CL_SendMessage
    \/ CL_TakeWakes
    \/ CL_Fetch
    \/ CL_Response
    \/ CL_Json
    \/ CL_GetHealthStatus

SpecClient == InitClient /\ [][NextClient]_vars

\* C37  One outcome per attempt in the integration client.  A sendMessage
\* call that reaches the transport records exactly one data point, makes
\* exactly one breaker call (onSuccess for a success, onFailure for an HTTP
\* error or a thrown transport error) and raises totalSent + totalFailed by
\* exactly 1; a call rejected by shouldBlock() records nothing.
OneOutcomePerAttempt ==
    sys = "client" /\ objCall.op = "sendMessage" =>
        IF objCall.blocked
        THEN objCall.points = 0 /\ objCall.log = <<>> /\ objCall.counted = 0
        ELSE /\ objCall.points = 1
             /\ objCall.log = IF objCall.r \in {"ok", "okBadBody"}
                              THEN <<"onSuccess">> ELSE <<"onFailure">>
             /\ objCall.counted = 1

\* every FAILED item has been through 1 .. RETRY_MAX - 1 failed cycles
FailedCounterRange ==
    IsPipe => \A i \in Items :
        DB[i].status = "FAILED" =>
            1 <= DB[i].attempt_count /\ DB[i].attempt_count <= RETRY_MAX - 1

\* one step of the pipeline: no counter goes down, and a row that becomes
\* DLQ was claimed, its worker task has just returned a failure, and its
\* counter read by onFail was at least RETRY_MAX - 1
CounterStep ==
    IsPipe => \A i \in Items :
        /\ DB'[i].attempt_count >= DB[i].attempt_count
        /\ DB[i].status # "DLQ" /\ DB'[i].status = "DLQ" =>
              /\ DB[i].status = "SENDING"
              /\ h'.failRet[i] = h.failRet[i] + 1
              /\ h'.moveToDLQ[i] = h.moveToDLQ[i] + 1
              /\ DB[i].attempt_count + 1 >= RETRY_MAX
              /\ DB'[i].attempt_count = DB[i].attempt_count

\* C38  Work-item attempt counter invariant.  In the pipeline an item's
\* attempt_count never decreases, every FAILED item has
\* 1 <= attempt_count <= RETRY_MAX - 1, and an item enters DLQ only from a
\* failed dispatcher cycle in which attempt_count + 1 >= RETRY_MAX.
AttemptCounterInvariant == []FailedCounterRange /\ [][CounterStep]_vars

\* one item is in the DLQ after its RETRY_MAX-th failed cycle while another
\* waits for its last retry
C38_DeadLetterAndLastRetry ==
    /\ IsPipe
    /\ \E i, j \in Items :
          /\ DB[i].status = "DLQ" /\ DB[i].attempt_count = RETRY_MAX - 1
          /\ h.moveToDLQ[i] = 1
          /\ DB[j].status = "FAILED" /\ DB[j].attempt_count = RETRY_MAX - 1

\* C39  Breaker counter invariant.  Under any sequence of calls on the
\* CircuitBreaker class and on the CB object of simulate.js, a Closed
\* breaker has consecutiveFailures < failureThreshold, and
\* consecutiveFailures is 0 after every onSuccess and after the call that
\* took the breaker from Open to HalfOpen.
BreakerCounterInvariant ==
    sys \in {"breaker", "simcb"} /\ ~breakerCall.direct =>
        /\ breaker.state = "Closed" =>
              breaker.consecutiveFailures
                 < (IF sys = "breaker" THEN breaker.failureThreshold ELSE CB_FAILURES)
        /\ breakerCall.op = "onSuccess" => breaker.consecutiveFailures = 0
        /\ breakerCall.op \in {"shouldBlock", "getState"} =>
              (breakerCall.pre.state = "Open" /\ breaker.state = "HalfOpen"
                 => breaker.consecutiveFailures = 0)

\* a breaker opened by failureThreshold failures, and failed on again while
\* Open, has just been taken to HalfOpen by shouldBlock()
C39_CounterClearedOnHalfOpen ==
    /\ sys \in {"breaker", "simcb"} /\ ~breakerCall.direct
    /\ breakerCall.op = "shouldBlock"
    /\ breakerCall.pre.state = "Open"
    /\ breakerCall.pre.consecutiveFailures
          > (IF sys = "breaker" THEN breaker.failureThreshold ELSE CB_FAILURES)
    /\ breaker.state = "HalfOpen" /\ breaker.consecutiveFailures = 0

\* the breaker as the listener called with event e finds it: the caller of
\* transition() has not yet made the assignments that follow it
SeenByListener(e) ==
    [breaker EXCEPT !.state = e.to, !.openedAt = e.openedAt,
                    !.halfOpenUntil = e.halfOpenUntil,
                    !.consecutiveFailures = e.consecutiveFailures]

\* C40  Breaker timestamps are consistent with the state at every
\* observable point.  After a call that took the breaker into Open, and
\* inside the listener called for that transition, openedAt is the time of
\* the transition and a shouldBlock() made there returns true; after a call
\* that took it into HalfOpen, and inside the listener called for that
\* transition, halfOpenUntil is the time of the transition plus
\* halfOpenDuration; other calls leave the timestamp of the state alone.
BreakerTimestamps ==
    sys = "breaker" /\ breakerCall.op \notin {"new", "reset"} /\ ~breakerCall.direct =>
        LET at == breakerCall.at
            c  == breakerCall.pre
        IN  /\ breaker.state = "Open" =>
                  breaker.openedAt = IF c.state = "Open" THEN c.openedAt ELSE at
            /\ breaker.state = "HalfOpen" =>
                  breaker.halfOpenUntil = IF c.state = "HalfOpen" THEN c.halfOpenUntil
                                          ELSE at + breaker.halfOpenDurationMs
            /\ \A k \in 1..Len(breakerCall.events) :
                  LET e == breakerCall.events[k]
                  IN  /\ e.to = "Open" =>
                            /\ e.openedAt = at
                            /\ shouldBlock(SeenByListener(e), at).ret
                      /\ e.to = "HalfOpen" =>
                            e.halfOpenUntil = at + breaker.halfOpenDurationMs

====
